---- MODULE Spec2Model ----
(***************************************************************************)
(* A model of the BMW ECU flasher of src/RFTX_FLASHER.py: the BMWFlasher   *)
(* object (connection, session and security state, identity and memory     *)
(* map), its public operations, the flash_ecu sequence, the tester-present *)
(* watchdog and the ISO-TP engine.                                         *)
(*                                                                         *)
(*   Spec      the operations of one BMWFlasher called by one foreground   *)
(*             thread; the ECU's replies are the inputs.                   *)
(*   SpecWd    the watchdog timer thread against foreground exchanges, in  *)
(*             whole seconds of time.time().                               *)
(*   SpecIsotp ISOTPHandler.send looped back into _receive_isotp.          *)
(***************************************************************************)
EXTENDS Integers, Sequences, FiniteSets, TLC

VARIABLES
    self,           \* the BMWFlasher object's fields
    pc,             \* where the foreground thread is inside flash_ecu
    loop,           \* flash_ecu's locals
    sent,           \* the requests the last step handed to the dispatcher
    event,          \* the operation that has just returned, and how
    hist,           \* which positive replies this connection has seen
    now,            \* time.time(), in whole seconds
    last_activity,  \* self.last_activity
    timer_due,      \* when the pending threading.Timer fires; -1: none pending
    wd,             \* where the watchdog thread is inside watchdog_function
    fg,             \* the foreground thread's exchange
    tick,           \* what the last run of watchdog_function met and did
    tx,             \* ISOTPHandler.send: its message and locals
    rx,             \* _receive_isotp of the handler at the other end
    wire,           \* the bytes written by the sender, not yet read
    back,           \* the bytes written by the receiver, not yet read
    peer,           \* the ECU at the other end of the line, where it is no handler
    poll,           \* one request in both dispatchers, fed the same replies
    keycalc         \* the key computation of security_access for one seed

apiVars == <<self, pc, loop, sent, event, hist>>

wdVars == <<now, last_activity, timer_due, wd, fg, tick>>

tpVars == <<tx, rx, wire, back>>

auxVars == <<peer, poll, keycalc>>

vars == <<apiVars, wdVars, tpVars, auxVars>>

----------------------------------------------------------------------------
(* Constants of src/RFTX_FLASHER.py.                                       *)

KWP_START_DIAGNOSTIC_SESSION == 16
KWP_ECU_RESET == 17
KWP_READ_ECU_IDENTIFICATION == 26
KWP_READ_DATA_BY_LOCAL_ID == 33
KWP_READ_MEMORY_BY_ADDRESS == 35
KWP_SECURITY_ACCESS == 39
KWP_WRITE_MEMORY_BY_ADDRESS == 61
KWP_TESTER_PRESENT == 62
UDS_DIAGNOSTIC_SESSION_CONTROL == 16
UDS_ECU_RESET == 17
UDS_READ_DATA_BY_IDENTIFIER == 34
UDS_READ_MEMORY_BY_ADDRESS == 35
UDS_SECURITY_ACCESS == 39
UDS_ROUTINE_CONTROL == 49
UDS_REQUEST_DOWNLOAD == 52
UDS_TRANSFER_DATA == 54
UDS_REQUEST_TRANSFER_EXIT == 55
UDS_TESTER_PRESENT == 62
SESSION_DEFAULT == 1
SESSION_PROGRAMMING == 2
SECURITY_LEVEL_PROGRAMMING == 1
ROUTINE_ERASE_MEMORY_SECTOR == 65282

Sector(n, s, z, p) == [name |-> n, start |-> s, size |-> z, protected |-> p]

MapMSD80 ==
    [flash_start |-> \h800000, flash_size |-> \h100000, block_size |-> \h1000,
     sectors |-> << Sector("Bootloader", \h800000, \h10000, TRUE),
                    Sector("Calibration", \h810000, \h40000, FALSE),
                    Sector("Program", \h850000, \hB0000, TRUE) >>,
     protocol |-> "KWP2000", security_algorithm |-> "xor",
     seed_key_length |-> 2, transfer_size |-> \h200, erase_required |-> TRUE]

MapMSD81 ==
    [flash_start |-> \h800000, flash_size |-> \h100000, block_size |-> \h1000,
     sectors |-> << Sector("Bootloader", \h800000, \h10000, TRUE),
                    Sector("Calibration", \h810000, \h40000, FALSE),
                    Sector("Program", \h850000, \hB0000, TRUE) >>,
     protocol |-> "KWP2000", security_algorithm |-> "xor",
     seed_key_length |-> 2, transfer_size |-> \h200, erase_required |-> TRUE]

MapMEVD172 ==
    [flash_start |-> \h800000, flash_size |-> \h200000, block_size |-> \h1000,
     sectors |-> << Sector("Bootloader", \h800000, \h10000, TRUE),
                    Sector("Calibration", \h810000, \h80000, FALSE),
                    Sector("Program", \h890000, \h170000, TRUE) >>,
     protocol |-> "UDS", security_algorithm |-> "crc",
     seed_key_length |-> 4, transfer_size |-> \h800, erase_required |-> TRUE]

\* MapMG1 with the Program sector starting inside the Calibration sector.
MapMG1Overlapping ==
    [flash_start |-> \h800000, flash_size |-> \h100000, block_size |-> \h1000,
     sectors |-> << Sector("Bootloader", \h800000, \h10000, TRUE),
                    Sector("Calibration", \h810000, \h30000, FALSE),
                    Sector("Program", \h830000, \hC0000, TRUE) >>,
     protocol |-> "UDS", security_algorithm |-> "crc",
     seed_key_length |-> 4, transfer_size |-> \h400, erase_required |-> TRUE]

MapMG1 ==
    [flash_start |-> \h800000, flash_size |-> \h100000, block_size |-> \h1000,
     sectors |-> << Sector("Bootloader", \h800000, \h10000, TRUE),
                    Sector("Calibration", \h810000, \h30000, FALSE),
                    Sector("Program", \h840000, \hC0000, TRUE) >>,
     protocol |-> "UDS", security_algorithm |-> "crc",
     seed_key_length |-> 4, transfer_size |-> \h400, erase_required |-> TRUE]

MapMD1 ==
    [flash_start |-> \h800000, flash_size |-> \h100000, block_size |-> \h1000,
     sectors |-> << Sector("Bootloader", \h800000, \h10000, TRUE),
                    Sector("Calibration", \h810000, \h30000, FALSE),
                    Sector("Program", \h840000, \hC0000, TRUE) >>,
     protocol |-> "UDS", security_algorithm |-> "crc",
     seed_key_length |-> 4, transfer_size |-> \h400, erase_required |-> TRUE]

ECU_TYPES == {"MSD80", "MSD81", "MEVD17.2", "MG1", "MD1"}

ECU_MEMORY_MAPS ==
    [t \in ECU_TYPES |->
        CASE t = "MSD80"    -> MapMSD80
          [] t = "MSD81"    -> MapMSD81
          [] t = "MEVD17.2" -> MapMEVD172
          [] t = "MG1"      -> MapMG1
          [] t = "MD1"      -> MapMD1]

DEFAULT_MEMORY_MAP ==
    [flash_start |-> \h800000, flash_size |-> \h100000, block_size |-> \h1000,
     sectors |-> << Sector("Bootloader", \h800000, \h10000, TRUE),
                    Sector("Calibration", \h810000, \h40000, FALSE),
                    Sector("Program", \h850000, \hB0000, TRUE) >>,
     protocol |-> "KWP2000", security_algorithm |-> "xor",
     seed_key_length |-> 2, transfer_size |-> \h200, erase_required |-> TRUE]

\* self.ecu_memory_map is held as the key of the map it refers to
\* ("DEFAULT" for DEFAULT_MEMORY_MAP, "none" for None).
_get_memory_map(ecu_type) == IF ecu_type \in ECU_TYPES THEN ecu_type ELSE "DEFAULT"

MapOf(key) == IF key \in ECU_TYPES THEN ECU_MEMORY_MAPS[key] ELSE DEFAULT_MEMORY_MAP

----------------------------------------------------------------------------
(* The inputs: what the ECU and the adapter answer.                        *)

\* A reply as the callers tell replies apart: "pos" has first byte
\* service_id + 0x40, "neg" is 0x7F service_id nrc, "none" is None.
Replies == {"pos", "neg", "none"}

\* The ECU-ID strings an ECU returns: one naming each registered variant and
\* one naming none of them.
EcuIds == ECU_TYPES \cup {"OTHER"}

Vins == {"WBA"}

\* The seed bytes an ECU returns to request-seed, after the reply's two
\* leading bytes.
Seeds == {<<>>, <<\h12, \h34>>, <<\hFF, \hFF>>, <<\h12, \h34, \h56, \h78>>}

\* The lengths of the flash files: empty, ending where the first programmed
\* sector starts, ending inside it, one byte into it, a whole 1 MB and 2 MB
\* image, and one byte more than each flash_size.
ImageLens == {0, \h10000, \h10001, \h100000, \h100001, \h200000, \h200001}

\* The maxNumberOfBlockLength an ECU returns to Request-Download (0: absent).
MaxBlockSizes == {0, \h100}

\* What connect() meets: whether the port opens, and the replies to the four
\* probes of _initialize_communication, up to the first positive one.
ConnectInputs ==
    {[port_ok |-> FALSE, r |-> <<"none", "none", "none", "none">>],
     [port_ok |-> TRUE,  r |-> <<"pos", "none", "none", "none">>],
     [port_ok |-> TRUE,  r |-> <<"neg", "pos", "none", "none">>],
     [port_ok |-> TRUE,  r |-> <<"none", "none", "pos", "none">>],
     [port_ok |-> TRUE,  r |-> <<"none", "neg", "none", "pos">>],
     [port_ok |-> TRUE,  r |-> <<"none", "none", "none", "none">>]}

NoConnect == [port_ok |-> FALSE, r |-> [i \in 1..4 |-> "none"]]

\* connect() runs only where the object is not connected.
ConnectInputsOf(s) == IF s.connected THEN {NoConnect} ELSE ConnectInputs

InfoInputs == [vin : Vins \cup {"none"}, ecu_id : EcuIds \cup {"none"}]

\* The replies to request-seed and send-key; the key reply is read only after
\* a positive seed reply.
SecurityInputs ==
    [seed_reply : {"neg", "none"}, seed : {<<>>}, key_reply : {"none"}]
        \cup [seed_reply : {"pos"}, seed : Seeds, key_reply : Replies]

----------------------------------------------------------------------------
(* The dispatcher and the operations, as functions of the object's state   *)
(* s and the replies; each yields the new state, the result and the        *)
(* requests it dispatched.                                                 *)

Out(s, res, snt) == [s |-> s, result |-> res, sent |-> snt]

\* _send_uds_command and _send_kwp_command: nothing is dispatched without a
\* port. A dispatched request is recorded with the session and security state
\* it was dispatched in.
Dispatch(s, sid, data, addr, size, r) ==
    IF s.port = "none"
    THEN [response |-> "none", sent |-> <<>>]
    ELSE [response |-> r,
          sent |-> << [sid |-> sid, data |-> data, addr |-> addr, size |-> size,
                       response |-> r, session_type |-> s.session_type,
                       security_level |-> s.security_level] >>]

_initialize_communication(s, r) ==
    LET u1 == Dispatch(s, UDS_TESTER_PRESENT, <<0>>, 0, 0, r[1])
        u2 == Dispatch(s, UDS_DIAGNOSTIC_SESSION_CONTROL, <<SESSION_DEFAULT>>, 0, 0, r[2])
        k1 == Dispatch(s, KWP_TESTER_PRESENT, <<0>>, 0, 0, r[3])
        k2 == Dispatch(s, KWP_START_DIAGNOSTIC_SESSION, <<\h81>>, 0, 0, r[4])
    IN  IF u1.response = "pos"
        THEN Out([s EXCEPT !.protocol = "UDS"], "ok", u1.sent)
        ELSE IF u2.response = "pos"
        THEN Out([s EXCEPT !.protocol = "UDS"], "ok", u1.sent \o u2.sent)
        ELSE IF k1.response = "pos"
        THEN Out([s EXCEPT !.protocol = "KWP2000"], "ok", u1.sent \o u2.sent \o k1.sent)
        ELSE IF k2.response = "pos"
        THEN Out([s EXCEPT !.protocol = "KWP2000"], "ok",
                 u1.sent \o u2.sent \o k1.sent \o k2.sent)
        ELSE Out(s, "fail", u1.sent \o u2.sent \o k1.sent \o k2.sent)

connect(s, c) ==
    IF ~c.port_ok
    THEN Out([s EXCEPT !.port = "none"], "fail", <<>>)
    ELSE LET i == _initialize_communication([s EXCEPT !.port = "open"], c.r)
         IN  IF i.result # "ok"
             THEN Out([s EXCEPT !.port = "none"], "fail", i.sent)
             ELSE Out([i.s EXCEPT !.watchdog_timer = "armed", !.connected = TRUE],
                      "ok", i.sent)

\* "if not self.connected and not self.connect()": the state and the requests
\* of the attempt, with result "fail" where the caller gives up.
EnsureConnected(s, c) == IF s.connected THEN Out(s, "ok", <<>>) ELSE connect(s, c)

_determine_ecu_type(ecu_id) == IF ecu_id \in ECU_TYPES THEN ecu_id ELSE "MSD80"

\* The identifier reads of read_ecu_info: a read that is answered stores the
\* text, one that is not leaves the field as it was.
IdRead(s, kwp_id, uds_id, text) ==
    IF s.protocol = "KWP2000"
    THEN Dispatch(s, KWP_READ_ECU_IDENTIFICATION, <<kwp_id>>, 0, 0,
                  IF text = "none" THEN "none" ELSE "pos")
    ELSE Dispatch(s, UDS_READ_DATA_BY_IDENTIFIER, <<\hF1, uds_id>>, 0, 0,
                  IF text = "none" THEN "none" ELSE "pos")

_check_bootloader_mode(s) ==
    IF s.protocol = "KWP2000"
    THEN Dispatch(s, KWP_READ_DATA_BY_LOCAL_ID, <<1>>, 0, 0, "none")
    ELSE Dispatch(s, UDS_READ_DATA_BY_IDENTIFIER, <<\hF1, \h80>>, 0, 0, "none")

\* read_ecu_info once connected.
ReadIdentity(s0, pre, e) ==
    LET v  == IdRead(s0, \h90, \h90, e.vin)
        i  == IdRead(s0, \h92, \h8A, e.ecu_id)
        sw == IdRead(s0, \h94, \h89, "none")
        hw == IdRead(s0, \h93, \h91, "none")
        id == IF i.response = "pos" THEN e.ecu_id ELSE s0.ecu_id
        s2 == [s0 EXCEPT !.vin = IF v.response = "pos" THEN e.vin ELSE @,
                         !.ecu_id = id,
                         !.ecu_type = IF id # "none" THEN _determine_ecu_type(id)
                                      ELSE @,
                         !.ecu_memory_map =
                             IF id # "none"
                             THEN _get_memory_map(_determine_ecu_type(id)) ELSE @]
    IN  Out(s2, "ok", pre \o v.sent \o i.sent \o sw.sent \o hw.sent
                          \o _check_bootloader_mode(s2).sent)

InfoAfterConnect(k, e) ==
    IF k.result # "ok" THEN Out(k.s, "raise", k.sent)
    ELSE ReadIdentity(k.s, k.sent, e)

read_ecu_info(s, c, e) == InfoAfterConnect(EnsureConnected(s, c), e)

\* enter_programming_session once connected.
StartProgrammingSession(s, pre, r) ==
    LET a == IF s.protocol = "KWP2000"
             THEN Dispatch(s, KWP_START_DIAGNOSTIC_SESSION, <<\h85>>, 0, 0, r)
             ELSE Dispatch(s, UDS_DIAGNOSTIC_SESSION_CONTROL,
                           <<SESSION_PROGRAMMING>>, 0, 0, r)
    IN  IF a.response # "pos"
        THEN Out(s, "fail", pre \o a.sent)
        ELSE Out([s EXCEPT !.session_type = SESSION_PROGRAMMING], "ok",
                 pre \o a.sent)

SessionAfterConnect(k, r) ==
    IF k.result # "ok" THEN Out(k.s, "fail", k.sent)
    ELSE StartProgrammingSession(k.s, k.sent, r)

enter_programming_session(s, c, r) == SessionAfterConnect(EnsureConnected(s, c), r)

\* Python's ^ on non-negative integers.
RECURSIVE BitXor(_, _)
BitXor(a, b) ==
    IF a = 0 THEN b
    ELSE IF b = 0 THEN a
    ELSE (((a % 2) + (b % 2)) % 2) + 2 * BitXor(a \div 2, b \div 2)

\* A Python integer below 2^32 is held as <<high 16 bits, low 16 bits>>.
Val16(bs) ==
    IF Len(bs) = 0 THEN 0 ELSE IF Len(bs) = 1 THEN bs[1] ELSE bs[1] * 256 + bs[2]

\* int.from_bytes(bs, byteorder='big') for at most four bytes.
FromBytes(bs) ==
    LET n == Len(bs)
    IN  IF n <= 2 THEN <<0, Val16(bs)>>
        ELSE <<Val16(SubSeq(bs, 1, n - 2)), Val16(SubSeq(bs, n - 1, n))>>

\* response[2:2+seed_key_length] of a reply that carries seed_bytes after its
\* two leading bytes.
SeedSlice(seed_bytes, len) ==
    SubSeq(seed_bytes, 1, IF len < Len(seed_bytes) THEN len ELSE Len(seed_bytes))

Xor32(w, v) == <<BitXor(w[1], v[1]), BitXor(w[2], v[2])>>

\* An addition that drops the carry out of the low 16 bits.
Add32NoCarry(w, n) == <<w[1], (w[2] + n) % 65536>>

\* (w + n) & 0xFFFFFFFF for n below 2^16.
Add32(w, n) == <<(w[1] + ((w[2] + n) \div 65536)) % 65536, (w[2] + n) % 65536>>

\* (w << 1) & 0xFFFFFFFF
Shl32(w) == <<(w[1] * 2 + (w[2] \div 32768)) % 65536, (w[2] * 2) % 65536>>

RECURSIVE CrcLoop(_, _)
CrcLoop(key, n) ==
    IF n = 0 THEN key
    ELSE CrcLoop(IF key[1] >= 32768
                 THEN Xor32(Shl32(key), <<\h04C1, \h1DB7>>)
                 ELSE Shl32(key),
                 n - 1)

_calculate_key(seed, algorithm) ==
    IF algorithm = "xor" THEN Add32(Xor32(seed, <<0, \h5A3C>>), \h7F1B)
    ELSE IF algorithm = "crc" THEN CrcLoop(seed, 32)
    ELSE Add32(Xor32(seed, <<0, \hA35C>>), \hF12B)

\* key.to_bytes(len, byteorder='big') raises OverflowError for a key that does
\* not fit len bytes.
FitsBytes(w, len) ==
    IF len >= 4 THEN TRUE
    ELSE IF len >= 2 THEN w[1] < 2 ^ (8 * len - 16)
    ELSE w[1] = 0 /\ w[2] < 2 ^ (8 * len)

\* The four bytes of a word, most significant first.
Bytes4(w) == <<w[1] \div 256, w[1] % 256, w[2] \div 256, w[2] % 256>>

\* A to_bytes that puts the least significant byte first.
ToBytesLittle(w, len) ==
    [i \in 1..len |-> IF i <= 4 THEN Bytes4(w)[5 - i] ELSE 0]

\* key.to_bytes(len, byteorder='big') of a key that fits len bytes.
ToBytes(w, len) ==
    [i \in 1..len |-> IF i > len - 4 THEN Bytes4(w)[i - (len - 4)] ELSE 0]

\* "[0x02] + list(key_bytes)", the data of the send-key request for the seed
\* bytes the ECU returned.
KeyRequest(seed_bytes, algorithm, seed_key_length) ==
    <<2>> \o ToBytes(_calculate_key(FromBytes(SeedSlice(seed_bytes, seed_key_length)),
                                    algorithm),
                     seed_key_length)

\* A security_access that takes any reply to its key for a grant.
SeedKeyExchangeAnyReply(s, pre, g) ==
    LET m    == MapOf(s.ecu_memory_map)
        sid  == IF s.protocol = "KWP2000" THEN KWP_SECURITY_ACCESS
                ELSE UDS_SECURITY_ACCESS
        sd   == Dispatch(s, sid, <<1>>, 0, 0, g.seed_reply)
        seed == FromBytes(SeedSlice(g.seed, m.seed_key_length))
        key  == _calculate_key(seed, m.security_algorithm)
        ky   == Dispatch(s, sid,
                         KeyRequest(g.seed, m.security_algorithm, m.seed_key_length),
                         0, 0, g.key_reply)
    IN  IF sd.response # "pos" THEN Out(s, "fail", pre \o sd.sent)
        ELSE IF ~FitsBytes(key, m.seed_key_length) THEN Out(s, "raise", pre \o sd.sent)
        ELSE Out([s EXCEPT !.security_level = SECURITY_LEVEL_PROGRAMMING],
                 "ok", pre \o sd.sent \o ky.sent)

\* The seed and key exchange of security_access, in the programming session.
SeedKeyExchange(s, pre, g) ==
    LET m    == MapOf(s.ecu_memory_map)
        sid  == IF s.protocol = "KWP2000" THEN KWP_SECURITY_ACCESS
                ELSE UDS_SECURITY_ACCESS
        sd   == Dispatch(s, sid, <<1>>, 0, 0, g.seed_reply)
        seed == FromBytes(SeedSlice(g.seed, m.seed_key_length))
        key  == _calculate_key(seed, m.security_algorithm)
        ky   == Dispatch(s, sid,
                         KeyRequest(g.seed, m.security_algorithm, m.seed_key_length),
                         0, 0, g.key_reply)
    IN  IF sd.response # "pos" THEN Out(s, "fail", pre \o sd.sent)
        ELSE IF ~FitsBytes(key, m.seed_key_length) THEN Out(s, "raise", pre \o sd.sent)
        ELSE IF ky.response # "pos" THEN Out(s, "fail", pre \o sd.sent \o ky.sent)
        ELSE Out([s EXCEPT !.security_level = SECURITY_LEVEL_PROGRAMMING],
                 "ok", pre \o sd.sent \o ky.sent)

\* A security_access that goes on after a refused programming session.
SecurityInSessionUnchecked(p, g) ==
    IF p.s.ecu_memory_map = "none"
    THEN Out(p.s, "raise", p.sent)
    ELSE SeedKeyExchange(p.s, p.sent, g)

\* Lines 855-858, and line 864 where no memory map is loaded.
SecurityInSession(p, g) ==
    IF p.result # "ok" THEN Out(p.s, "fail", p.sent)
    ELSE IF p.s.ecu_memory_map = "none"
    THEN Out(p.s, "raise", p.sent)               \* None.get: AttributeError
    ELSE SeedKeyExchange(p.s, p.sent, g)

SecurityAfterConnect(k, r, g) ==
    IF k.result # "ok" THEN Out(k.s, "fail", k.sent)
    ELSE SecurityInSession(IF k.s.session_type # SESSION_PROGRAMMING
                           THEN StartProgrammingSession(k.s, k.sent, r)
                           ELSE k, g)

security_access(s, c, r, g) ==
    IF s.security_level >= SECURITY_LEVEL_PROGRAMMING THEN Out(s, "ok", <<>>)
    ELSE SecurityAfterConnect(EnsureConnected(s, c), r, g)

\* A disconnect that leaves security_level as it was.
disconnectOpenPortOnly(s, r) ==
    LET d == IF s.port = "open" /\ s.session_type # SESSION_DEFAULT
             THEN Dispatch(s, UDS_DIAGNOSTIC_SESSION_CONTROL,
                           <<SESSION_DEFAULT>>, 0, 0, r)
             ELSE [response |-> "none", sent |-> <<>>]
    IN  Out([s EXCEPT !.watchdog_timer = "none", !.port = "none",
                      !.connected = FALSE,
                      !.session_type = SESSION_DEFAULT],
            "ok", d.sent)

\* Lines 665-689.
disconnect(s, r) ==
    LET d == IF s.port = "open" /\ s.session_type # SESSION_DEFAULT
             THEN IF s.protocol = "UDS"
                  THEN Dispatch(s, UDS_DIAGNOSTIC_SESSION_CONTROL,
                                <<SESSION_DEFAULT>>, 0, 0, r)
                  ELSE Dispatch(s, KWP_START_DIAGNOSTIC_SESSION, <<\h81>>, 0, 0, r)
             ELSE [response |-> "none", sent |-> <<>>]
    IN  Out([s EXCEPT !.watchdog_timer = "none", !.port = "none",
                      !.connected = FALSE, !.security_level = 0,
                      !.session_type = SESSION_DEFAULT],
            "ok", d.sent)

reset_ecu(s, r) ==
    LET d == IF s.protocol = "KWP2000"
             THEN Dispatch(s, KWP_ECU_RESET, <<1>>, 0, 0, r)
             ELSE Dispatch(s, UDS_ECU_RESET, <<1>>, 0, 0, r)
    IN  Out(s, "ok", d.sent)

\* An erase request that names the sector's start and no size.
_erase_memory_start(s, address, size, r) ==
    IF s.protocol = "KWP2000"
    THEN Dispatch(s, \h31, <<0>>, address, 0, r)
    ELSE Dispatch(s, UDS_ROUTINE_CONTROL,
                  <<1, ROUTINE_ERASE_MEMORY_SECTOR \div 256,
                    ROUTINE_ERASE_MEMORY_SECTOR % 256>>, address, 0, r)

\* The erase request carries the sector's start and size.
_erase_memory_sector(s, address, size, r) ==
    IF s.protocol = "KWP2000"
    THEN Dispatch(s, \h31, <<0>>, address, size, r)
    ELSE Dispatch(s, UDS_ROUTINE_CONTROL,
                  <<1, ROUTINE_ERASE_MEMORY_SECTOR \div 256,
                    ROUTINE_ERASE_MEMORY_SECTOR % 256>>, address, size, r)

Min(a, b) == IF a < b THEN a ELSE b

\* range(0, n, step) has this many elements.
RangeLen(n, step) == (n + step - 1) \div step

\* A transfer loop that goes on after a block that was not accepted.
TransferBlocksOn(s, address, n, block_size, td_fail) ==
    [j \in 1..RangeLen(n, block_size) |->
        Dispatch(s, UDS_TRANSFER_DATA, <<j % 256>>,
                 address + (j - 1) * block_size,
                 Min(block_size, n - (j - 1) * block_size),
                 IF j = td_fail THEN "none" ELSE "pos").sent[1]]

\* The Transfer-Data requests of one _write_memory call on the UDS path: blocks
\* of block_size bytes of the n bytes at address, the td_fail-th of which (if
\* any) is not answered positively and ends the loop.
TransferBlocks(s, address, n, block_size, td_fail) ==
    LET count == RangeLen(n, block_size)
        last  == IF td_fail \in 1..count THEN td_fail ELSE count
    IN  [j \in 1..last |->
            Dispatch(s, UDS_TRANSFER_DATA, <<j % 256>>,
                     address + (j - 1) * block_size,
                     Min(block_size, n - (j - 1) * block_size),
                     IF j = td_fail THEN "none" ELSE "pos").sent[1]]

\* _write_memory(address, data) with len(data) = n: the result and the
\* requests. w holds the replies: to the write or download request, the
\* max block size the download reply carries, which Transfer-Data fails (0:
\* none) and the reply to the transfer exit.
_write_memory(s, address, n, w) ==
    IF s.protocol = "KWP2000"
    THEN LET d == Dispatch(s, KWP_WRITE_MEMORY_BY_ADDRESS, <<>>, address, n, w.r)
         IN  [result |-> IF d.response = "pos" THEN "ok" ELSE "fail", sent |-> d.sent]
    ELSE LET d  == Dispatch(s, UDS_REQUEST_DOWNLOAD, <<0, \h24, \h24>>, address, n, w.r)
             bs == Min(n, IF w.max_block_size > 0 THEN w.max_block_size ELSE n)
             td == TransferBlocks(s, address, n, bs, w.td_fail)
             x  == Dispatch(s, UDS_REQUEST_TRANSFER_EXIT, <<>>, address, 0, w.r_exit)
         IN  IF d.response # "pos" THEN [result |-> "fail", sent |-> d.sent]
             ELSE IF w.td_fail \in 1..Len(td)
             THEN [result |-> "fail", sent |-> d.sent \o td]
             ELSE IF x.response # "pos"
             THEN [result |-> "fail", sent |-> d.sent \o td \o x.sent]
             ELSE [result |-> "ok", sent |-> d.sent \o td \o x.sent]

WriteInputs(s) ==
    IF s.protocol = "KWP2000"
    THEN [r : {"pos", "none"}, max_block_size : {0}, td_fail : {0}, r_exit : {"pos"}]
    ELSE [r : {"neg"}, max_block_size : {0}, td_fail : {0}, r_exit : {"pos"}]
         \cup [r : {"pos"}, max_block_size : MaxBlockSizes, td_fail : {0},
               r_exit : {"pos", "none"}]
         \cup [r : {"pos"}, max_block_size : {\h100}, td_fail : {1, 2},
               r_exit : {"pos"}]

\* _read_memory(address, size): both dialects put size into one byte, which
\* raises for a size above 255 before anything is dispatched (bytes(data) in
\* _send_kwp_command, size.to_bytes(1) on the UDS path).
_read_memory(s, address, size, r) ==
    IF size > 255 THEN [result |-> "raise", sent |-> <<>>]
    ELSE LET d == IF s.protocol = "KWP2000"
                  THEN Dispatch(s, KWP_READ_MEMORY_BY_ADDRESS, <<>>, address, size, r)
                  ELSE Dispatch(s, UDS_READ_MEMORY_BY_ADDRESS, <<\h24, \h11>>,
                                address, size, r)
         IN  [result |-> IF d.response = "pos" THEN "ok" ELSE "fail", sent |-> d.sent]

TesterPresent(s) ==
    IF s.protocol = "UDS" THEN Dispatch(s, UDS_TESTER_PRESENT, <<0>>, 0, 0, "pos")
    ELSE Dispatch(s, KWP_TESTER_PRESENT, <<0>>, 0, 0, "pos")

\* "if offset % 0x10000 == 0 and offset > 0": the tester-present inside the
\* block loops.
KeepAlive(s, offset) ==
    IF offset % \h10000 = 0 /\ offset > 0 THEN TesterPresent(s).sent ELSE <<>>

----------------------------------------------------------------------------
(* The state after __init__, and the operations as the foreground thread   *)
(* calls them.                                                             *)

NoLoop == [flash_len |-> 0, sector |-> 0, offset |-> 0, bytes_written |-> 0,
           bytes_verified |-> 0, bytes_read |-> 0, error |-> "none"]

NoEvent == [op |-> "none", result |-> "none", error |-> "none",
            pre_session |-> SESSION_DEFAULT, pre_security |-> 0]

\* __init__, lines 422-439.
ApiInit_self ==
    [port |-> "none", connected |-> FALSE, protocol |-> "none",
     security_level |-> 0, session_type |-> SESSION_DEFAULT,
     vin |-> "none", ecu_id |-> "none", ecu_type |-> "none",
     ecu_memory_map |-> "none", watchdog_timer |-> "none"]

ApiInit ==
    /\ self = ApiInit_self
    /\ pc = "idle"
    /\ loop = NoLoop
    /\ sent = <<>>
    /\ event = NoEvent
    /\ hist = [session_ack |-> FALSE, key_ack |-> FALSE, stale |-> FALSE]

IsSessionRequest(q) ==
    /\ q.sid = UDS_DIAGNOSTIC_SESSION_CONTROL
    /\ q.data \in {<<SESSION_PROGRAMMING>>, <<\h85>>}

IsSendKey(q) == q.sid = UDS_SECURITY_ACCESS /\ q.data[1] = 2

\* The ECU-ID read of read_ecu_info, in either dialect.
IsEcuIdRead(q) ==
    \/ q.sid = KWP_READ_ECU_IDENTIFICATION /\ q.data = <<\h92>>
    \/ q.sid = UDS_READ_DATA_BY_IDENTIFIER /\ q.data = <<\hF1, \h8A>>

\* The positive replies seen since the object last was disconnected, and
\* whether the ecu_id it holds was stored before that and not read since.
HistAfter(op, snt) ==
    LET hit(P(_)) == \E i \in 1..Len(snt) : P(snt[i]) /\ snt[i].response = "pos"
    IN  IF op = "disconnect"
        THEN [session_ack |-> FALSE, key_ack |-> FALSE,
              stale |-> self.ecu_id # "none"]
        ELSE [session_ack |-> hist.session_ack \/ hit(IsSessionRequest),
              key_ack |-> hist.key_ack \/ hit(IsSendKey),
              stale |-> hist.stale /\ ~hit(IsEcuIdRead)]

EventOf(op, res, err) ==
    [op |-> op, result |-> res, error |-> err,
     pre_session |-> self.session_type, pre_security |-> self.security_level]

\* An operation called from outside flash_ecu, returning o.
Returns(op, o) ==
    /\ pc = "idle"
    /\ self' = o.s
    /\ sent' = o.sent
    /\ event' = EventOf(op, o.result, "none")
    /\ hist' = HistAfter(op, o.sent)
    /\ UNCHANGED <<pc, loop, wdVars, tpVars, auxVars>>

Connect ==
    /\ ~self.connected
    /\ \E c \in ConnectInputs : Returns("connect", connect(self, c))

Disconnect == \E r \in Replies : Returns("disconnect", disconnect(self, r))

ReadEcuInfo ==
    \E c \in ConnectInputsOf(self), e \in InfoInputs :
        Returns("read_ecu_info", read_ecu_info(self, c, e))

EnterProgrammingSession ==
    \E c \in ConnectInputsOf(self), r \in Replies :
        Returns("enter_programming_session", enter_programming_session(self, c, r))

\* security_access reads no reply once the object is unlocked.
SecurityInputsOf(s) ==
    IF s.security_level >= SECURITY_LEVEL_PROGRAMMING
    THEN {[seed_reply |-> "none", seed |-> <<>>, key_reply |-> "none"]}
    ELSE SecurityInputs

\* It enters the programming session only from another session.
SessionInputsOf(s) ==
    IF s.security_level >= SECURITY_LEVEL_PROGRAMMING
          \/ s.session_type = SESSION_PROGRAMMING
    THEN {"none"} ELSE Replies

SecurityAccess ==
    \E c \in ConnectInputsOf(self), r \in SessionInputsOf(self),
       g \in SecurityInputsOf(self) :
        Returns("security_access", security_access(self, c, r, g))

ResetEcu == \E r \in Replies : Returns("reset_ecu", reset_ecu(self, r))

----------------------------------------------------------------------------
(* flash_ecu, one step per call it makes; the block loops take one step    *)
(* per block.                                                              *)

Running == [NoEvent EXCEPT !.op = "flash_ecu", !.result = "running"]

\* A step of flash_ecu that leaves the object as o.s, having dispatched
\* o.sent, and goes on at `next` with locals l.
FlashStep(o, next, l) ==
    /\ self' = o.s
    /\ sent' = o.sent
    /\ hist' = HistAfter("flash_ecu", o.sent)
    /\ event' = Running
    /\ pc' = next
    /\ loop' = l
    /\ UNCHANGED <<wdVars, tpVars, auxVars>>

\* A step that raises: the exception leaves flash_ecu in the next step.
FlashFails(o, err) == FlashStep(o, "flash_raise", [loop EXCEPT !.error = err])

Same(s) == Out(s, "ok", <<>>)

\* Lines 1055-1056.
FlashEcu ==
    /\ pc = "idle"
    /\ \E c \in ConnectInputsOf(self) :
        LET k == EnsureConnected(self, c)
        IN  IF k.result # "ok" THEN FlashFails(k, "ConnectionError")
            ELSE FlashStep(k, "flash_info", NoLoop)

WithMemoryMap(s) ==
    IF s.ecu_memory_map = "none"
    THEN [s EXCEPT !.ecu_memory_map = _get_memory_map(s.ecu_type)]
    ELSE s

\* Lines 1058-1064.
FlashInfo ==
    /\ pc = "flash_info"
    /\ IF self.vin = "none" \/ self.ecu_id = "none"
       THEN \E e \in InfoInputs :
               LET o == read_ecu_info(self, NoConnect, e)
               IN  FlashStep(Out(WithMemoryMap(o.s), "ok", o.sent), "flash_session", loop)
       ELSE FlashStep(Same(WithMemoryMap(self)), "flash_session", loop)

\* Lines 1066-1068.
FlashSession ==
    /\ pc = "flash_session"
    /\ IF self.session_type # SESSION_PROGRAMMING
       THEN \E r \in Replies :
               LET o == enter_programming_session(self, NoConnect, r)
               IN  IF o.result # "ok" THEN FlashFails(o, "SessionRejected")
                   ELSE FlashStep(o, "flash_security", loop)
       ELSE FlashStep(Same(self), "flash_security", loop)

\* Lines 1070-1072.
FlashSecurity ==
    /\ pc = "flash_security"
    /\ IF self.security_level < SECURITY_LEVEL_PROGRAMMING
       THEN \E g \in SecurityInputs :
               LET o == security_access(self, NoConnect, "none", g)
               IN  IF o.result = "ok" THEN FlashStep(o, "flash_file", loop)
                   ELSE IF o.result = "raise" THEN FlashFails(o, "OverflowError")
                   ELSE FlashFails(o, "SecurityDenied")
       ELSE FlashStep(Same(self), "flash_file", loop)

\* Lines 1076-1086.
FlashFile ==
    /\ pc = "flash_file"
    /\ \E n \in ImageLens :
        IF n > MapOf(self.ecu_memory_map).flash_size
        THEN FlashFails(Same(self), "ImageTooLarge")
        ELSE FlashStep(Same(self), "flash_sector",
                       [loop EXCEPT !.flash_len = n, !.sector = 1, !.offset = 0])

\* A flash loop that skips the program sector alone.
ProtectedProgramOnly(sector) == sector.name = "Program"

\* "protected = sector.get("protected", False)"
Protected(sector) == sector.protected

\* "if data_start >= len(flash_data)" does not hold.
InImage(m, sector, n) == sector.start - m.flash_start < n

\* Lines 1089-1121: the next sector of the loop, up to its erase.
FlashSector ==
    /\ pc = "flash_sector"
    /\ LET m == MapOf(self.ecu_memory_map) IN
       IF loop.sector > Len(m.sectors)
       THEN FlashStep(Same(self), "flash_verify", [loop EXCEPT !.sector = 1, !.offset = 0])
       ELSE LET sector == m.sectors[loop.sector] IN
            IF Protected(sector) \/ ~InImage(m, sector, loop.flash_len)
            THEN FlashStep(Same(self), "flash_sector", [loop EXCEPT !.sector = @ + 1])
            ELSE IF ~m.erase_required
            THEN FlashStep(Same(self), "flash_write", [loop EXCEPT !.offset = 0])
            ELSE \E r \in Replies :
                    LET d == _erase_memory_sector(self, sector.start, sector.size, r)
                        o == Out(self, "ok", d.sent)
                    IN  IF d.response # "pos" THEN FlashFails(o, "EraseFailed")
                        ELSE FlashStep(o, "flash_write", [loop EXCEPT !.offset = 0])

\* Lines 1123-1143: one block of the sector. The sector's data is padded to
\* the sector's size, so the blocks cover the whole sector.
FlashWrite ==
    /\ pc = "flash_write"
    /\ LET m          == MapOf(self.ecu_memory_map)
           sector     == m.sectors[loop.sector]
           block_size == m.transfer_size
           address    == sector.start + loop.offset
           n          == Min(block_size, sector.size - loop.offset)
       IN  \E w \in WriteInputs(self) :
              LET d == _write_memory(self, address, n, w)
              IN  IF d.result # "ok"
                  THEN FlashFails(Out(self, "fail", d.sent), "WriteFailed")
                  ELSE LET o == Out(self, "ok", d.sent \o KeepAlive(self, loop.offset))
                           l == [loop EXCEPT !.bytes_written = @ + n]
                       IN  IF loop.offset + block_size < sector.size
                           THEN FlashStep(o, "flash_write",
                                          [l EXCEPT !.offset = @ + block_size])
                           ELSE FlashStep(o, "flash_sector",
                                          [l EXCEPT !.sector = @ + 1, !.offset = 0])

\* A comparison that takes a block it could not ask for as read and equal.
VerifyBlockUnread(d, match) ==
    IF d.result = "raise" THEN "ok"
    ELSE IF d.result # "ok" \/ ~match THEN "fail"
    ELSE "ok"

\* Lines 1301-1309: the block read back and compared; the request raises where
\* the block's length does not fit its one-byte field.
VerifyBlock(d, match) ==
    IF d.result = "raise" THEN "raise"
    ELSE IF d.result # "ok" \/ ~match THEN "fail"
    ELSE "ok"

\* Lines 1145-1151 with _verify_flash, lines 1258-1324: one block read back,
\* or one sector skipped; match tells whether the block read equals the
\* expected one.
FlashVerify ==
    /\ pc = "flash_verify"
    /\ LET m == MapOf(self.ecu_memory_map) IN
       IF loop.sector > Len(m.sectors)
       THEN /\ self' = self
            /\ sent' = <<>>
            /\ hist' = hist
            /\ event' = EventOf("flash_ecu", "ok", "none")
            /\ pc' = "idle"
            /\ loop' = NoLoop
            /\ UNCHANGED <<wdVars, tpVars, auxVars>>
       ELSE LET sector     == m.sectors[loop.sector]
                block_size == Min(m.transfer_size, \h1000)
                address    == sector.start + loop.offset
                n          == Min(block_size, sector.size - loop.offset)
            IN  IF Protected(sector) \/ ~InImage(m, sector, loop.flash_len)
                THEN FlashStep(Same(self), "flash_verify", [loop EXCEPT !.sector = @ + 1])
                ELSE \E r \in Replies, match \in BOOLEAN :
                        LET d == _read_memory(self, address, n, r)
                            o == Out(self, "ok", d.sent \o KeepAlive(self, loop.offset))
                            v == VerifyBlock(d, match)
                            l == [loop EXCEPT !.bytes_verified = @ + n]
                        IN  IF v = "raise" THEN FlashFails(Same(self), "OverflowError")
                            ELSE IF v = "fail"
                            THEN FlashFails(Out(self, "fail", d.sent), "VerifyFailed")
                            ELSE IF loop.offset + block_size < sector.size
                            THEN FlashStep(o, "flash_verify",
                                           [l EXCEPT !.offset = @ + block_size])
                            ELSE FlashStep(o, "flash_verify",
                                           [l EXCEPT !.sector = @ + 1, !.offset = 0])

\* What the RuntimeError of a failed erase (line 1121) or write (line 1131)
\* names: the sector's name, or the address of the block handed to
\* _write_memory. l holds the loop's locals as the raise left them.
FailureNamed(m, l) ==
    IF l.error = "EraseFailed"
    THEN [sector |-> m.sectors[l.sector].name, address |-> -1]
    ELSE IF l.error = "WriteFailed"
    THEN [sector |-> "none", address |-> m.sectors[l.sector].start + l.offset]
    ELSE [sector |-> "none", address |-> -1]

\* The exception leaves flash_ecu: the caller sees the object as it is.
FlashRaise ==
    /\ pc = "flash_raise"
    /\ pc' = "idle"
    /\ event' = EventOf("flash_ecu", "raise", loop.error)
    /\ loop' = NoLoop
    /\ sent' = <<>>
    /\ UNCHANGED <<self, hist, wdVars, tpVars, auxVars>>

----------------------------------------------------------------------------
(* backup_ecu, one step per call it makes; the block loop takes one step   *)
(* per block.                                                              *)

BackupRunning == [NoEvent EXCEPT !.op = "backup_ecu", !.result = "running"]

BackupStep(o, next, l) ==
    /\ self' = o.s
    /\ sent' = o.sent
    /\ hist' = HistAfter("backup_ecu", o.sent)
    /\ event' = BackupRunning
    /\ pc' = next
    /\ loop' = l
    /\ UNCHANGED <<wdVars, tpVars, auxVars>>

BackupFails(o, err) == BackupStep(o, "backup_raise", [loop EXCEPT !.error = err])

\* Lines 948-949.
BackupEcu ==
    /\ pc = "idle"
    /\ \E c \in ConnectInputsOf(self) :
        LET k == EnsureConnected(self, c)
        IN  IF k.result # "ok" THEN BackupFails(k, "ConnectionError")
            ELSE BackupStep(k, "backup_info", NoLoop)

\* Lines 951-957.
BackupInfo ==
    /\ pc = "backup_info"
    /\ IF self.vin = "none" \/ self.ecu_id = "none"
       THEN \E e \in InfoInputs :
               LET o == read_ecu_info(self, NoConnect, e)
               IN  BackupStep(Out(WithMemoryMap(o.s), "ok", o.sent), "backup_session", loop)
       ELSE BackupStep(Same(WithMemoryMap(self)), "backup_session", loop)

\* Lines 959-961.
BackupSession ==
    /\ pc = "backup_session"
    /\ IF self.session_type # SESSION_PROGRAMMING
       THEN \E r \in Replies :
               LET o == enter_programming_session(self, NoConnect, r)
               IN  IF o.result # "ok" THEN BackupFails(o, "SessionRejected")
                   ELSE BackupStep(o, "backup_security", loop)
       ELSE BackupStep(Same(self), "backup_security", loop)

\* Lines 963-965, up to the opening of the backup file.
BackupSecurity ==
    /\ pc = "backup_security"
    /\ LET l == [loop EXCEPT !.sector = 1, !.offset = 0] IN
       IF self.security_level < SECURITY_LEVEL_PROGRAMMING
       THEN \E g \in SecurityInputs :
               LET o == security_access(self, NoConnect, "none", g)
               IN  IF o.result = "ok" THEN BackupStep(o, "backup_read", l)
                   ELSE IF o.result = "raise" THEN BackupFails(o, "OverflowError")
                   ELSE BackupFails(o, "SecurityDenied")
       ELSE BackupStep(Same(self), "backup_read", l)

\* The exception of a read request whose size does not fit one byte:
\* bytes(data) in _send_kwp_command, size.to_bytes(1) on the UDS path.
ReadSizeError(s) == IF s.protocol = "KWP2000" THEN "ValueError" ELSE "OverflowError"

\* Lines 985-1017: one block of the sector read and written to the file, or,
\* past the last sector, the return of the file name.
BackupRead ==
    /\ pc = "backup_read"
    /\ LET m == MapOf(self.ecu_memory_map) IN
       IF loop.sector > Len(m.sectors)
       THEN /\ self' = self
            /\ sent' = <<>>
            /\ hist' = hist
            /\ event' = EventOf("backup_ecu", "ok", "none")
            /\ pc' = "idle"
            /\ loop' = [NoLoop EXCEPT !.bytes_read = loop.bytes_read]
            /\ UNCHANGED <<wdVars, tpVars, auxVars>>
       ELSE LET sector     == m.sectors[loop.sector]
                block_size == Min(m.transfer_size, \h1000)
                address    == sector.start + loop.offset
                size       == Min(block_size, sector.size - loop.offset)
            IN  \E r \in Replies :
                   LET d == _read_memory(self, address, size, r)
                       o == Out(self, "ok", d.sent \o KeepAlive(self, loop.offset))
                       l == [loop EXCEPT !.bytes_read = @ + size]
                   IN  IF d.result = "raise"
                       THEN BackupFails(Same(self), ReadSizeError(self))
                       ELSE IF d.result # "ok"
                       THEN BackupFails(Out(self, "fail", d.sent), "ReadFailed")
                       ELSE IF loop.offset + block_size < sector.size
                       THEN BackupStep(o, "backup_read",
                                       [l EXCEPT !.offset = @ + block_size])
                       ELSE BackupStep(o, "backup_read",
                                       [l EXCEPT !.sector = @ + 1, !.offset = 0])

\* The exception leaves backup_ecu, closing the file as it is.
BackupRaise ==
    /\ pc = "backup_raise"
    /\ pc' = "idle"
    /\ event' = EventOf("backup_ecu", "raise", loop.error)
    /\ loop' = NoLoop
    /\ sent' = <<>>
    /\ UNCHANGED <<self, hist, wdVars, tpVars, auxVars>>

\* No ECU peer, no dispatcher comparison and no key computation is under
\* way.
PeerOff == peer = [mode |-> "off", length |-> 0, block_size |-> 0, st_min |-> 0,
                   nibbles |-> <<>>, fc_index |-> 0]

PollOff == poll = [pc |-> "off"]

KeyOff == keycalc = [pc |-> "off"]

AuxOff == PeerOff /\ PollOff /\ KeyOff

\* No ISO-TP transfer is under way.
TpOff ==
    /\ tx = [data |-> <<>>, pc |-> "off", data_index |-> 0, sequence_number |-> 0,
             block_size |-> 0, st_min |-> 0, pause |-> 0]
    /\ rx = [pc |-> "off", length |-> 0, response_data |-> <<>>,
             expected_sequence |-> 0, result |-> <<>>]
    /\ wire = <<>>
    /\ back = <<>>

\* Spec takes no account of time: the watchdog changes none of the fields the
\* operations read.
WdOff ==
    /\ now = 0
    /\ last_activity = 0
    /\ timer_due = -1
    /\ wd = [pc |-> "off", current_time |-> 0, deadline |-> 0]
    /\ fg = [pc |-> "idle", deadline |-> 0, last |-> 0]
    /\ tick = [at |-> 0, age |-> 0, tester_present |-> 0, busy |-> FALSE, sent_at |-> -1,
               battery |-> -1]

Init == ApiInit /\ WdOff /\ TpOff /\ AuxOff

Next ==
    \/ Connect
    \/ Disconnect
    \/ ReadEcuInfo
    \/ EnterProgrammingSession
    \/ SecurityAccess
    \/ ResetEcu
    \/ FlashEcu
    \/ FlashInfo
    \/ FlashSession
    \/ FlashSecurity
    \/ FlashFile
    \/ FlashSector
    \/ FlashWrite
    \/ FlashVerify
    \/ FlashRaise
    \/ BackupEcu
    \/ BackupInfo
    \/ BackupSession
    \/ BackupSecurity
    \/ BackupRead
    \/ BackupRaise

Spec == Init /\ [][Next]_vars

----------------------------------------------------------------------------
(* The watchdog: _start_watchdog's timer thread beside the foreground      *)
(* thread, on one connection, from the moment connect() has returned.      *)
(* Time is time.time() in whole seconds. An exchange takes from no time up *)
(* to the ISO-TP timeout; the polling after NRC 0x78 is left out.          *)

\* The longest time the model runs to.
MaxTime == 12

\* threading.Timer(1.0, watchdog_function)
WATCHDOG_INTERVAL == 1

\* "if current_time - self.last_activity >= 2.0"
TESTER_PRESENT_IDLE == 2

\* "if current_time - self.last_activity >= 5.0"
BATTERY_CHECK_IDLE == 5

\* ISOTPHandler.timeout
ISOTP_TIMEOUT == 5

\* The state connect() leaves when it returns True at time 0.
WdInit ==
    /\ \E c \in ConnectInputs :
          /\ connect(ApiInit_self, c).result = "ok"
          /\ self = connect(ApiInit_self, c).s
    /\ pc = "idle"
    /\ loop = NoLoop
    /\ sent = <<>>
    /\ event = [NoEvent EXCEPT !.op = "connect", !.result = "ok"]
    /\ hist = [session_ack |-> FALSE, key_ack |-> FALSE, stale |-> FALSE]
    /\ now = 0
    /\ last_activity = 0
    /\ timer_due = WATCHDOG_INTERVAL
    /\ wd = [pc |-> "off", current_time |-> 0, deadline |-> 0]
    /\ fg = [pc |-> "idle", deadline |-> 0, last |-> 0]
    /\ tick = [at |-> 0, age |-> 0, tester_present |-> 0, busy |-> FALSE, sent_at |-> -1,
               battery |-> -1]
    /\ TpOff
    /\ AuxOff

\* Lines 547-552 of _send_uds_command, 588-593 of _send_kwp_command: a request
\* q that is dispatched stamps last_activity, one that is not leaves it.
Stamp(q) == IF q.sent # <<>> THEN now ELSE last_activity

\* The battery read of _check_battery_voltage.
BatteryRead(s) ==
    IF s.protocol = "UDS"
    THEN Dispatch(s, UDS_READ_DATA_BY_IDENTIFIER, <<\hF4, \h05>>, 0, 0, "pos")
    ELSE Dispatch(s, KWP_READ_DATA_BY_LOCAL_ID, <<\h10>>, 0, 0, "pos")

\* One second passes: a timer that is due fires first, and no exchange waits
\* beyond its timeout.
Advance ==
    /\ now < MaxTime
    /\ timer_due # now
    /\ fg.pc = "wait" => now < fg.deadline
    /\ wd.pc # "off" => now < wd.deadline
    /\ now' = now + 1
    /\ UNCHANGED <<apiVars, last_activity, timer_due, wd, fg, tick, tpVars, auxVars>>

\* The foreground thread dispatches a request (an identifier read).
FgSend ==
    /\ fg.pc = "idle"
    /\ LET q == IdRead(self, \h90, \h90, "WBA")
       IN  /\ last_activity' = Stamp(q)
           /\ sent' = q.sent
           /\ fg' = [pc |-> "wait", deadline |-> now + ISOTP_TIMEOUT, last |-> now]
    /\ UNCHANGED <<self, pc, loop, event, hist, now, timer_due, wd, tick, tpVars, auxVars>>

\* Its reply arrives, or its wait times out.
FgReply ==
    /\ fg.pc = "wait"
    /\ fg' = [fg EXCEPT !.pc = "idle"]
    /\ UNCHANGED <<apiVars, now, last_activity, timer_due, wd, tick, tpVars, auxVars>>

\* A watchdog that waits a second longer.
NeedsTesterPresentLate(current_time, last) == current_time - last > TESTER_PRESENT_IDLE

\* "if current_time - self.last_activity >= 2.0"
NeedsTesterPresent(current_time, last) == current_time - last >= TESTER_PRESENT_IDLE

\* Lines 627-634 of watchdog_function, run at the end of the tick that took
\* its time at current_time and has acted as t: the battery check, then the
\* timer armed again.
WdBatteryThenRearm(current_time, t) ==
    IF current_time - last_activity >= BATTERY_CHECK_IDLE
    THEN LET q == BatteryRead(self)
         IN  /\ last_activity' = Stamp(q)
             /\ sent' = q.sent
             /\ wd' = [pc |-> "battery_wait", current_time |-> current_time,
                       deadline |-> now + ISOTP_TIMEOUT]
             /\ tick' = [t EXCEPT !.battery = now, !.sent_at = now]
             /\ timer_due' = -1
    ELSE /\ timer_due' = now + WATCHDOG_INTERVAL
         /\ wd' = [pc |-> "off", current_time |-> current_time, deadline |-> 0]
         /\ tick' = t
         /\ UNCHANGED <<last_activity, sent>>

\* The timer fires: watchdog_function, lines 618-625, up to its tester-present
\* being dispatched; without one it goes on to the battery check.
WdFire ==
    /\ timer_due = now
    /\ wd.pc = "off"
    /\ LET t == [tick EXCEPT !.at = now, !.age = now - last_activity,
                             !.tester_present = 0,
                             !.busy = (fg.pc = "wait")]
       IN  IF NeedsTesterPresent(now, last_activity)
           THEN LET q == TesterPresent(self)
                IN  /\ last_activity' = Stamp(q)
                    /\ sent' = q.sent
                    /\ wd' = [pc |-> "tester_present_wait", current_time |-> now,
                              deadline |-> now + ISOTP_TIMEOUT]
                    /\ tick' = [t EXCEPT !.tester_present = Len(q.sent),
                                         !.sent_at = now]
                    /\ timer_due' = -1
           ELSE WdBatteryThenRearm(now, t)
    /\ UNCHANGED <<self, pc, loop, event, hist, now, fg, tpVars, auxVars>>

\* The watchdog's exchange ends (reply or timeout), and watchdog_function
\* goes on: after the tester-present to the battery check, after the battery
\* read to arming the timer.
WdReply ==
    /\ wd.pc # "off"
    /\ IF wd.pc = "tester_present_wait"
       THEN WdBatteryThenRearm(wd.current_time, tick)
       ELSE /\ timer_due' = now + WATCHDOG_INTERVAL
            /\ wd' = [wd EXCEPT !.pc = "off", !.deadline = 0]
            /\ UNCHANGED <<last_activity, sent, tick>>
    /\ UNCHANGED <<self, pc, loop, event, hist, now, fg, tpVars, auxVars>>

WdNext ==
    \/ Advance
    \/ FgSend
    \/ FgReply
    \/ WdFire
    \/ WdReply

SpecWd == WdInit /\ [][WdNext]_vars

----------------------------------------------------------------------------
(* disconnect called on the foreground thread while the watchdog runs on   *)
(* its timer thread.                                                       *)

\* disconnect, lines 665-689, at whatever point the watchdog is:
\* watchdog_timer.cancel() stops a timer that has not fired yet and does
\* nothing to a watchdog_function that is running.
WdDisconnect ==
    /\ self.connected
    /\ \E r \in Replies :
          LET o == disconnect(self, r)
          IN  /\ self' = o.s
              /\ sent' = o.sent
              /\ event' = EventOf("disconnect", o.result, "none")
              /\ hist' = HistAfter("disconnect", o.sent)
    /\ timer_due' = -1
    /\ UNCHANGED <<pc, loop, now, last_activity, wd, fg, tick, tpVars, auxVars>>

StopNext ==
    \/ Advance
    \/ WdFire
    \/ WdReply
    \/ WdDisconnect

SpecStop == WdInit /\ [][StopNext]_vars

----------------------------------------------------------------------------
(* ISO-TP: ISOTPHandler.send of one handler, its frames read by            *)
(* _receive_isotp of the handler at the other end of the serial line, and  *)
(* that handler's flow control read back by the sender. Both run one frame *)
(* at a time.                                                              *)

\* Messages of every length up to this one are sent.
MaxPayloadLen == 120

\* The serial line buffers this many frames.
WireFrames == 2

CAN_ID_REQUEST == 1777
CAN_ID_RESPONSE == 1785

\* The lengths sent beside 1..MaxPayloadLen.
LongPayloadLens == {255, 256, 257, 4094, 4095}

PayloadLens == 1..MaxPayloadLen \cup LongPayloadLens

\* Byte i of a message is (k * i) % 256: all zero like the padding (k = 0),
\* or changing from byte to byte.
PayloadPatterns == {0, 1, 37}

Payload(n, k) == [i \in 1..n |-> (k * i) % 256]

Payloads == {Payload(n, k) : n \in PayloadLens, k \in PayloadPatterns}

\* Python's s[a:b] for 0 <= a <= b.
Slice(s, a, b) == SubSeq(s, a + 1, Min(b, Len(s)))

\* A frame sent as short as it is.
Pad8Not(frame) == frame

\* "if len(frame) < 8: frame += b'\x00' * (8 - len(frame))"
Pad8(frame) == frame \o [i \in 1..(8 - Len(frame)) |-> 0]

\* struct.pack(">I", can_id)
Pack32(n) ==
    <<(n \div 16777216) % 256, (n \div 65536) % 256, (n \div 256) % 256, n % 256>>

\* struct.unpack(">I", header[:4])[0], for an identifier below 2^24.
Unpack32(bs) == bs[2] * 65536 + bs[3] * 256 + bs[4]

\* _send_can_frame: what it writes to the port.
_send_can_frame(can_id, data) == Pack32(can_id) \o <<Len(data)>> \o data

\* A whole frame can be read from the stream without a timeout.
FrameReady(stream) == Len(stream) >= 5 /\ Len(stream) >= 5 + stream[5]

\* _receive_can_frame on a stream that holds a whole frame: the frame's data
\* (ok) or None, and what is left of the stream.
_receive_can_frame(stream, expected_id) ==
    LET header == SubSeq(stream, 1, 5)
        dlc    == header[5]
    IN  IF Unpack32(header) # expected_id
        THEN [ok |-> FALSE, data |-> <<>>, rest |-> SubSeq(stream, 6, Len(stream))]
        ELSE [ok |-> TRUE, data |-> SubSeq(stream, 6, 5 + dlc),
              rest |-> SubSeq(stream, 6 + dlc, Len(stream))]

\* There is room on the line for one more frame.
WireHasRoom == Len(wire) < WireFrames * 13

TpInit ==
    /\ ApiInit
    /\ WdOff
    /\ AuxOff
    /\ tx \in [data : Payloads, pc : {"send"}, data_index : {0},
               sequence_number : {0}, block_size : {0}, st_min : {0},
               pause : {0}]
    /\ rx = [pc |-> "first", length |-> 0, response_data |-> <<>>,
             expected_sequence |-> 0, result |-> <<>>]
    /\ wire = <<>>
    /\ back = <<>>

\* send with _send_single_frame, lines 237-259, up to its wait for the reply.
SendSingleFrame ==
    /\ tx.pc = "send"
    /\ Len(tx.data) <= 7
    /\ wire' = wire \o _send_can_frame(CAN_ID_REQUEST,
                                       Pad8(<<Len(tx.data)>> \o tx.data))
    /\ tx' = [tx EXCEPT !.pc = "response"]
    /\ UNCHANGED <<apiVars, wdVars, auxVars, rx, back>>

\* send with _send_multi_frame, lines 261-268: the first frame.
SendFirstFrame ==
    /\ tx.pc = "send"
    /\ Len(tx.data) > 7
    /\ LET data_length == Len(tx.data)
           first_frame == <<16 + ((data_length \div 256) % 16), data_length % 256>>
                             \o Slice(tx.data, 0, 6)
       IN  wire' = wire \o _send_can_frame(CAN_ID_REQUEST, first_frame)
    /\ tx' = [tx EXCEPT !.pc = "flow_control", !.sequence_number = 1,
                        !.data_index = 6]
    /\ UNCHANGED <<apiVars, wdVars, auxVars, rx, back>>

\* Lines 270-277 and 308-315: the flow control frame is read.
SendFlowControl ==
    /\ tx.pc = "flow_control"
    /\ FrameReady(back)
    /\ LET f == _receive_can_frame(back, CAN_ID_RESPONSE)
       IN  /\ back' = f.rest
           /\ IF ~f.ok \/ Len(f.data) < 3 \/ f.data[1] # \h30
              THEN tx' = [tx EXCEPT !.pc = "failed"]
              ELSE tx' = [tx EXCEPT !.pc = "consecutive",
                                    !.block_size = f.data[2], !.st_min = f.data[3]]
    /\ UNCHANGED <<apiVars, wdVars, auxVars, rx, wire>>

\* A pause that takes every STmin for milliseconds.
SeparationTimeMillis(st_min) == st_min * 1000

\* Lines 284-291: the time slept before a consecutive frame, in
\* microseconds. time.sleep takes seconds: st_min / 1000.0 is st_min
\* milliseconds, (st_min - 0xF0) * 100 / 1000000.0 is that many times 100
\* microseconds.
SeparationTime(st_min) ==
    IF st_min <= 127 THEN st_min * 1000
    ELSE IF st_min >= \hF1 /\ st_min <= \hF9 THEN (st_min - \hF0) * 100
    ELSE 0

\* A counter that leaves out the zero: 15 is followed by 1.
NextSequenceSkipsZero(sequence_number) ==
    IF sequence_number = 15 THEN 1 ELSE sequence_number + 1

\* Line 302: "sequence_number = (sequence_number + 1) & 0x0F"
NextSequence(sequence_number) == (sequence_number + 1) % 16

\* Lines 283-306: one consecutive frame. tx.pause is the time slept before
\* it.
SendConsecutiveFrame ==
    /\ tx.pc = "consecutive"
    /\ WireHasRoom
    /\ LET remaining   == Slice(tx.data, tx.data_index, tx.data_index + 7)
           frame       == Pad8(<<32 + (tx.sequence_number % 16)>> \o remaining)
           sequence    == NextSequence(tx.sequence_number)
           data_index  == tx.data_index + 7
       IN  /\ wire' = wire \o _send_can_frame(CAN_ID_REQUEST, frame)
           /\ tx' = [tx EXCEPT
                       !.pause = SeparationTime(tx.st_min),
                       !.sequence_number = sequence,
                       !.data_index = data_index,
                       !.pc = IF data_index >= Len(tx.data) THEN "response"
                              ELSE IF tx.block_size # 0
                                      /\ sequence % tx.block_size = 0
                              THEN "flow_control"
                              ELSE "consecutive"]
    /\ UNCHANGED <<apiVars, wdVars, auxVars, rx, back>>

\* A receiver that hands back all it has collected.
TruncateNot(response_data, length) == response_data

\* "return bytes(response_data[:length])"
Truncate(response_data, length) == Slice(response_data, 0, length)

\* _receive_isotp, lines 321-345: the first frame it reads.
ReceiveFirst ==
    /\ rx.pc = "first"
    /\ FrameReady(wire)
    /\ LET f          == _receive_can_frame(wire, CAN_ID_REQUEST)
           frame      == f.data
           frame_type == (frame[1] \div 16) * 16
           length     == ((frame[1] % 16) * 256) + frame[2]
           sf_length  == frame[1] % 16
           data       == Slice(frame, 2, 8)
       IN  /\ wire' = f.rest
           /\ IF ~f.ok
              THEN rx' = [rx EXCEPT !.pc = "failed"] /\ back' = back
              ELSE IF frame_type = 0
              THEN /\ rx' = [rx EXCEPT !.pc = "done", !.length = sf_length,
                                       !.result = Slice(frame, 1, 1 + sf_length)]
                   /\ back' = back
              ELSE IF frame_type = \h10
              THEN /\ back' = back \o _send_can_frame(CAN_ID_RESPONSE,
                                                      Pad8(<<\h30, 0, 0>>))
                   /\ rx' = IF Len(data) < length
                            THEN [rx EXCEPT !.pc = "consecutive", !.length = length,
                                            !.response_data = data,
                                            !.expected_sequence = 1]
                            ELSE [rx EXCEPT !.pc = "done", !.length = length,
                                            !.response_data = data,
                                            !.result = Truncate(data, length)]
              ELSE rx' = [rx EXCEPT !.pc = "failed"] /\ back' = back
    /\ UNCHANGED <<apiVars, wdVars, auxVars, tx>>

\* A receiver that counts on without wrapping.
NextExpectedNoWrap(expected_sequence) == expected_sequence + 1

\* "expected_sequence = (expected_sequence + 1) & 0x0F"
NextExpected(expected_sequence) == (expected_sequence + 1) % 16

\* Lines 347-364: one consecutive frame read.
ReceiveConsecutive ==
    /\ rx.pc = "consecutive"
    /\ FrameReady(wire)
    /\ LET f        == _receive_can_frame(wire, CAN_ID_REQUEST)
           cf_frame == f.data
           data     == rx.response_data \o Slice(cf_frame, 1, 8)
       IN  /\ wire' = f.rest
           /\ IF ~f.ok \/ (cf_frame[1] \div 16) * 16 # \h20
                 \/ cf_frame[1] % 16 # rx.expected_sequence
              THEN rx' = [rx EXCEPT !.pc = "failed"]
              ELSE rx' = [rx EXCEPT
                            !.response_data = data,
                            !.expected_sequence = NextExpected(@),
                            !.pc = IF Len(data) < rx.length THEN "consecutive"
                                   ELSE "done",
                            !.result = IF Len(data) < rx.length THEN <<>>
                                       ELSE Truncate(data, rx.length)]
    /\ UNCHANGED <<apiVars, wdVars, auxVars, tx, back>>

TpNext ==
    \/ SendSingleFrame
    \/ SendFirstFrame
    \/ SendFlowControl
    \/ SendConsecutiveFrame
    \/ ReceiveFirst
    \/ ReceiveConsecutive

SpecIsotp == TpInit /\ [][TpNext]_vars

----------------------------------------------------------------------------
(* _receive_isotp reading a multi-frame message from an ECU that numbers   *)
(* its consecutive frames as it likes: any nibble until it has deviated    *)
(* once, the right ones from then on.                                      *)

\* The message lengths the ECU sends: one, two and eighteen consecutive
\* frames, the last past the wrap of the sequence nibble.
RxLengths == {8, 20, 130}

\* The consecutive frames a message of n bytes takes.
ConsecutiveFrames(n) == (n - 6 + 6) \div 7

\* The nibble ISO-TP numbers the i-th consecutive frame with.
SequenceOf(i) == i % 16

Deviations(nibbles) == {i \in 1..Len(nibbles) : nibbles[i] # SequenceOf(i)}

RxInit ==
    /\ ApiInit
    /\ WdOff
    /\ PollOff
    /\ KeyOff
    /\ tx = [data |-> <<>>, pc |-> "off", data_index |-> 0, sequence_number |-> 0,
             block_size |-> 0, st_min |-> 0, pause |-> 0]
    /\ rx = [pc |-> "first", length |-> 0, response_data |-> <<>>,
             expected_sequence |-> 0, result |-> <<>>]
    /\ wire = <<>>
    /\ back = <<>>
    /\ peer \in [mode : {"first"}, length : RxLengths, block_size : {0},
                 st_min : {0}, nibbles : {<<>>}, fc_index : {0}]

\* The ECU writes its first frame.
PeerFirstFrame ==
    /\ peer.mode = "first"
    /\ wire' = wire \o _send_can_frame(CAN_ID_REQUEST,
                  <<16 + ((peer.length \div 256) % 16), peer.length % 256>>
                      \o Slice(Payload(peer.length, 1), 0, 6))
    /\ peer' = [peer EXCEPT !.mode = "flow_control"]
    /\ UNCHANGED <<apiVars, wdVars, tx, rx, back, poll, keycalc>>

\* It reads the flow control frame _receive_isotp has written.
PeerFlowControl ==
    /\ peer.mode = "flow_control"
    /\ FrameReady(back)
    /\ back' = _receive_can_frame(back, CAN_ID_RESPONSE).rest
    /\ peer' = [peer EXCEPT !.mode = "consecutive"]
    /\ UNCHANGED <<apiVars, wdVars, tx, rx, wire, poll, keycalc>>

\* It writes its next consecutive frame, numbered n.
PeerConsecutiveFrame ==
    /\ peer.mode = "consecutive"
    /\ Len(peer.nibbles) < ConsecutiveFrames(peer.length)
    /\ WireHasRoom
    /\ LET i == Len(peer.nibbles) + 1
       IN  \E n \in IF Deviations(peer.nibbles) = {} THEN 0..15 ELSE {SequenceOf(i)} :
              /\ wire' = wire \o _send_can_frame(CAN_ID_REQUEST,
                            Pad8(<<32 + n>> \o Slice(Payload(peer.length, 1),
                                                     7 * i - 1, 7 * i + 6)))
              /\ peer' = [peer EXCEPT !.nibbles = Append(@, n)]
    /\ UNCHANGED <<apiVars, wdVars, tx, rx, back, poll, keycalc>>

\* What _receive_isotp has returned to the caller of send: the reassembled
\* bytes, or None, which every failing path returns alike (lines 326, 351,
\* 355, 360, 370). Nothing is returned while it runs.
_receive_isotp_returned ==
    IF rx.pc = "done" THEN [value |-> "bytes", data |-> rx.result, error |-> "none"]
    ELSE IF rx.pc = "failed" THEN [value |-> "None", data |-> <<>>, error |-> "none"]
    ELSE [value |-> "running", data |-> <<>>, error |-> "none"]

RxNext ==
    \/ PeerFirstFrame
    \/ PeerFlowControl
    \/ PeerConsecutiveFrame
    \/ ReceiveFirst
    \/ ReceiveConsecutive

SpecRx == RxInit /\ [][RxNext]_vars

----------------------------------------------------------------------------
(* ISOTPHandler.send against an ECU that reads the frames and answers      *)
(* every wait for a flow control with one that carries its block size.     *)

\* The message lengths sent: a single frame, two consecutive frames, and
\* enough to pass the wrap of the sequence nibble.
TxLengths == {5, 20, 41, 130}

\* The block sizes the ECU announces.
BlockSizes == {0, 1, 2, 3, 5, 16, 20}

\* The separation times the ECU announces: every value of the STmin byte.
StMins == 0..255

TxInit ==
    /\ ApiInit
    /\ WdOff
    /\ PollOff
    /\ KeyOff
    /\ tx \in [data : {Payload(n, 1) : n \in TxLengths}, pc : {"send"},
               data_index : {0}, sequence_number : {0}, block_size : {0},
               st_min : {0}, pause : {0}]
    /\ rx = [pc |-> "off", length |-> 0, response_data |-> <<>>,
             expected_sequence |-> 0, result |-> <<>>]
    /\ wire = <<>>
    /\ back = <<>>
    /\ peer \in [mode : {"ecu"}, length : {0}, block_size : BlockSizes,
                 st_min : StMins, nibbles : {<<>>}, fc_index : {0}]

\* The ECU reads one frame off the line.
EcuRead ==
    /\ peer.mode = "ecu"
    /\ FrameReady(wire)
    /\ wire' = _receive_can_frame(wire, CAN_ID_REQUEST).rest
    /\ UNCHANGED <<apiVars, wdVars, tx, rx, back, auxVars>>

\* The sender waits for a flow control: the ECU writes one, having read all
\* that was sent. fc_index notes how far the sender was.
EcuFlowControl ==
    /\ peer.mode = "ecu"
    /\ tx.pc = "flow_control"
    /\ wire = <<>>
    /\ back = <<>>
    /\ back' = _send_can_frame(CAN_ID_RESPONSE, Pad8(<<\h30, peer.block_size, peer.st_min>>))
    /\ peer' = [peer EXCEPT !.fc_index = tx.data_index]
    /\ UNCHANGED <<apiVars, wdVars, tx, rx, wire, poll, keycalc>>

TxNext ==
    \/ SendSingleFrame
    \/ SendFirstFrame
    \/ SendFlowControl
    \/ SendConsecutiveFrame
    \/ EcuRead
    \/ EcuFlowControl

SpecTx == TxInit /\ [][TxNext]_vars

----------------------------------------------------------------------------
(* The two dispatchers, _send_uds_command and _send_kwp_command, each      *)
(* sending the same request to an ECU that answers with the same replies:  *)
(* some response-pending replies, then a last one, then nothing.           *)

\* The ECU sends up to this many response-pending replies.
MaxPending == 12

POSITIVE_RESPONSE == 64
NEGATIVE_RESPONSE == 127
NRC_RESPONSE_PENDING == 120

\* "while pending_count < 10"
PENDING_RETRIES == 10

\* time.sleep(0.1), in milliseconds
PENDING_SLEEP_MS == 100

PollService == UDS_REQUEST_DOWNLOAD

PendingReply(sid) == <<NEGATIVE_RESPONSE, sid, NRC_RESPONSE_PENDING>>

\* What the ECU ends with: a positive reply, a negative one, none at all, a
\* negative reply cut short, a response-pending for another service.
LastReplies(sid) ==
    {<<sid + POSITIVE_RESPONSE, \h40, \h08, \h00>>,
     <<NEGATIVE_RESPONSE, sid, \h22>>,
     <<>>,
     <<NEGATIVE_RESPONSE, sid>>,
     PendingReply(sid + 1)}

Scripts(sid) ==
    {[i \in 1..(k + 1) |-> IF i <= k THEN PendingReply(sid) ELSE last] :
        k \in 0..MaxPending, last \in LastReplies(sid)}

\* What the i-th read from ISO-TP returns: past the ECU's last reply the read
\* times out (None, here the empty message).
ReplyAt(script, i) == IF i <= Len(script) THEN script[i] ELSE <<>>

PollInit ==
    /\ ApiInit
    /\ WdOff
    /\ TpOff
    /\ PeerOff
    /\ KeyOff
    /\ poll \in [pc : {"on"}, sid : {PollService}, script : Scripts(PollService),
                 uds : {[pc |-> "send", response |-> <<>>, pending_count |-> 0,
                         reads |-> <<>>, slept |-> 0]},
                 kwp : {[pc |-> "send", response |-> <<>>]}]

\* Lines 562-566: the reply to the request is a response-pending for it.
IsResponsePending(response, service_id) ==
    /\ Len(response) >= 3
    /\ response[1] = NEGATIVE_RESPONSE
    /\ response[2] = service_id
    /\ response[3] = NRC_RESPONSE_PENDING

\* A dispatcher that takes every negative reply for a response-pending.
KeepsPollingOnNegative(response) == response[1] = NEGATIVE_RESPONSE

\* Line 576, where it does not break: the reply re-read is a response-pending.
\* A reply of fewer than three bytes that starts 0x7F raises IndexError there.
KeepsPolling(response) ==
    response[1] = NEGATIVE_RESPONSE /\ response[3] = NRC_RESPONSE_PENDING

\* _send_uds_command, lines 559-566: the request is sent and its reply read.
UdsSend ==
    /\ poll.pc = "on"
    /\ poll.uds.pc = "send"
    /\ LET response == ReplyAt(poll.script, 1)
       IN  poll' = [poll EXCEPT
                      !.uds.response = response,
                      !.uds.pc = IF IsResponsePending(response, poll.sid)
                                 THEN "polling" ELSE "returned"]
    /\ UNCHANGED <<apiVars, wdVars, tpVars, peer, keycalc>>

\* Lines 568-577: one round of the loop, or its end at ten rounds.
UdsPoll ==
    /\ poll.pc = "on"
    /\ poll.uds.pc = "polling"
    /\ LET u        == poll.uds
           response == ReplyAt(poll.script, Len(u.reads) + 2)
           read     == [u EXCEPT !.slept = @ + PENDING_SLEEP_MS,
                                 !.reads = Append(@, response),
                                 !.response = response]
       IN  IF ~(u.pending_count < PENDING_RETRIES)
           THEN poll' = [poll EXCEPT !.uds.pc = "returned"]
           ELSE IF response = <<>>
           THEN poll' = [poll EXCEPT !.uds = [read EXCEPT !.pc = "returned"]]
           ELSE IF response[1] = NEGATIVE_RESPONSE /\ Len(response) < 3
           THEN poll' = [poll EXCEPT !.uds = [read EXCEPT !.pc = "returned",
                                                          !.response = <<>>]]
           ELSE IF ~KeepsPolling(response)
           THEN poll' = [poll EXCEPT !.uds = [read EXCEPT !.pc = "returned"]]
           ELSE poll' = [poll EXCEPT !.uds = [read EXCEPT !.pending_count = @ + 1]]
    /\ UNCHANGED <<apiVars, wdVars, tpVars, peer, keycalc>>

\* _send_kwp_command, lines 597-606: the request is sent and its reply read.
KwpSend ==
    /\ poll.pc = "on"
    /\ poll.kwp.pc = "send"
    /\ poll' = [poll EXCEPT !.kwp.response = ReplyAt(poll.script, 1),
                            !.kwp.pc = "returned"]
    /\ UNCHANGED <<apiVars, wdVars, tpVars, peer, keycalc>>

PollNext ==
    \/ UdsSend
    \/ UdsPoll
    \/ KwpSend

SpecPoll == PollInit /\ [][PollNext]_vars

----------------------------------------------------------------------------
(* _receive_can_frame reading the byte stream of the adapter, on which     *)
(* frames of the ECU and frames with another identifier arrive. peer notes *)
(* how many bytes were written and read and where the frames begin.        *)

\* The frames that arrive.
BusFrames == 3

\* The identifiers they carry: the one the reader expects and another one.
BusIds == {CAN_ID_RESPONSE, CAN_ID_REQUEST}

\* Their data lengths.
BusDlcs == {0, 3, 8}

BusInit ==
    /\ ApiInit
    /\ WdOff
    /\ TpOff
    /\ PollOff
    /\ KeyOff
    /\ peer = [mode |-> "bus", frames |-> 0, written |-> 0, read |-> 0,
               bounds |-> {0}, returned |-> "none"]

\* A frame arrives in the input buffer.
BusWrite ==
    /\ peer.mode = "bus"
    /\ peer.frames < BusFrames
    /\ \E id \in BusIds, dlc \in BusDlcs :
          /\ back' = back \o _send_can_frame(id, [i \in 1..dlc |-> 16 + i])
          /\ peer' = [peer EXCEPT !.frames = @ + 1,
                                  !.written = @ + 5 + dlc,
                                  !.bounds = @ \cup {peer.written + 5 + dlc}]
    /\ UNCHANGED <<apiVars, wdVars, tx, rx, wire, poll, keycalc>>

\* Lines 391-411: one call of _receive_can_frame with the bytes it asks for
\* in the buffer.
CanReceive ==
    /\ peer.mode = "bus"
    /\ FrameReady(back)
    /\ LET f == _receive_can_frame(back, CAN_ID_RESPONSE)
       IN  /\ back' = f.rest
           /\ peer' = [peer EXCEPT !.read = @ + (Len(back) - Len(f.rest)),
                                   !.returned = IF f.ok THEN "data" ELSE "None"]
    /\ UNCHANGED <<apiVars, wdVars, tx, rx, wire, poll, keycalc>>

BusNext ==
    \/ BusWrite
    \/ CanReceive

SpecBus == BusInit /\ [][BusNext]_vars

----------------------------------------------------------------------------
(* Dispatcher calls one after the other on one connection. The ECU answers *)
(* each request with some response-pending replies and a last reply, in    *)
(* its own time; what it has written waits in the port's input buffer      *)
(* until a read takes it. A reply is noted with the request it answers.    *)

\* The dispatcher calls made on the connection.
MaxCalls == 2

NoReply == [for |-> 0, pending |-> FALSE]

SeqInit ==
    /\ ApiInit
    /\ WdOff
    /\ TpOff
    /\ PeerOff
    /\ KeyOff
    /\ poll \in [pc : {"seq"}, protocol : {"UDS", "KWP2000"}, call : {1},
                 stage : {"send"}, response : {NoReply}, pending_count : {0},
                 owed : {<<>>}, buffer : {<<>>}, got : {<<>>}]

\* Lines 559 and 600: the request of this call is written to the port. No
\* dispatcher empties the input buffer before it. The ECU will answer with
\* k response-pending replies and a last one.
SeqSend ==
    /\ poll.pc = "seq"
    /\ poll.stage = "send"
    /\ \E k \in 0..MaxPending :
          poll' = [poll EXCEPT !.stage = "read", !.pending_count = 0,
                               !.response = NoReply,
                               !.owed = Append(@, [for |-> poll.call, pendings |-> k])]
    /\ UNCHANGED <<apiVars, wdVars, tpVars, peer, keycalc>>

\* The ECU writes its next reply, whether or not a read is waiting for it.
EcuReply ==
    /\ poll.pc = "seq"
    /\ poll.owed # <<>>
    /\ LET o == Head(poll.owed)
       IN  IF o.pendings > 0
           THEN poll' = [poll EXCEPT
                           !.buffer = Append(@, [for |-> o.for, pending |-> TRUE]),
                           !.owed = <<[o EXCEPT !.pendings = @ - 1]>> \o Tail(@)]
           ELSE poll' = [poll EXCEPT
                           !.buffer = Append(@, [for |-> o.for, pending |-> FALSE]),
                           !.owed = Tail(@)]
    /\ UNCHANGED <<apiVars, wdVars, tpVars, peer, keycalc>>

\* Lines 559-566 and 600-608, with _receive_isotp, lines 323-334: the read
\* after the request takes what is first in the buffer, or times out on an
\* empty one. Only _send_uds_command goes on to poll.
SeqRead ==
    /\ poll.pc = "seq"
    /\ poll.stage = "read"
    /\ IF poll.buffer = <<>>
       THEN poll' = [poll EXCEPT !.stage = "returned", !.response = NoReply]
       ELSE LET response == Head(poll.buffer)
            IN  poll' = [poll EXCEPT
                           !.buffer = Tail(@),
                           !.response = response,
                           !.stage = IF poll.protocol = "UDS" /\ response.pending
                                     THEN "polling" ELSE "returned"]
    /\ UNCHANGED <<apiVars, wdVars, tpVars, peer, keycalc>>

\* Lines 568-577: one round of the response-pending loop, or its end at ten
\* rounds.
SeqPoll ==
    /\ poll.pc = "seq"
    /\ poll.stage = "polling"
    /\ IF ~(poll.pending_count < PENDING_RETRIES)
       THEN poll' = [poll EXCEPT !.stage = "returned"]
       ELSE IF poll.buffer = <<>>
       THEN poll' = [poll EXCEPT !.stage = "returned", !.response = NoReply]
       ELSE LET response == Head(poll.buffer)
            IN  poll' = [poll EXCEPT
                           !.buffer = Tail(@),
                           !.response = response,
                           !.pending_count = IF response.pending THEN @ + 1 ELSE @,
                           !.stage = IF response.pending THEN "polling"
                                     ELSE "returned"]
    /\ UNCHANGED <<apiVars, wdVars, tpVars, peer, keycalc>>

\* Lines 579 and 608: "return response"; the caller goes on to its next
\* request.
SeqReturn ==
    /\ poll.pc = "seq"
    /\ poll.stage = "returned"
    /\ poll' = [poll EXCEPT !.got = Append(@, poll.response),
                            !.stage = IF poll.call < MaxCalls THEN "send" ELSE "done",
                            !.call = IF poll.call < MaxCalls THEN @ + 1 ELSE @]
    /\ UNCHANGED <<apiVars, wdVars, tpVars, peer, keycalc>>

SeqNext ==
    \/ SeqSend
    \/ EcuReply
    \/ SeqRead
    \/ SeqPoll
    \/ SeqReturn

SpecSeq == SeqInit /\ [][SeqNext]_vars

----------------------------------------------------------------------------
(* The key computation of security_access, from the seed reply to the      *)
(* send-key request, for seeds over the whole 32-bit range.                *)

\* The seed bytes of the reply: two or four, with the values at which the
\* XOR, the carry of the addition and the 32-bit mask show.
KeySeedHalves ==
    {<<\h00, \h00>>, <<\h12, \h34>>, <<\h5A, \h3C>>, <<\hDA, \hD8>>,
     <<\hDA, \hD9>>, <<\hFF, \hFF>>}

KeySeedHighs ==
    {<<\h00, \h00>>, <<\h00, \h01>>, <<\h7F, \hFF>>, <<\h80, \h00>>, <<\hFF, \hFF>>}

KeySeeds == KeySeedHalves \cup {h \o l : h \in KeySeedHighs, l \in KeySeedHalves}

SecurityAlgorithms == {"xor", "crc", "none"}

SeedKeyLengths == {2, 4}

KeyInit ==
    /\ ApiInit
    /\ WdOff
    /\ TpOff
    /\ PeerOff
    /\ PollOff
    /\ keycalc \in [pc : {"seed"}, reply_seed : KeySeeds,
                    security_algorithm : SecurityAlgorithms,
                    seed_key_length : SeedKeyLengths,
                    seed_bytes : {<<>>}, seed : {<<0, 0>>}, key : {<<0, 0>>},
                    request : {<<>>}]

\* Lines 877-878 and 905-906.
KeyExtractSeed ==
    /\ keycalc.pc = "seed"
    /\ LET seed_bytes == SeedSlice(keycalc.reply_seed, keycalc.seed_key_length)
       IN  keycalc' = [keycalc EXCEPT !.pc = "calculate",
                                      !.seed_bytes = seed_bytes,
                                      !.seed = FromBytes(seed_bytes)]
    /\ UNCHANGED <<apiVars, wdVars, tpVars, peer, poll>>

\* Lines 882 and 910.
KeyCalculate ==
    /\ keycalc.pc = "calculate"
    /\ keycalc' = [keycalc EXCEPT
                     !.pc = "send",
                     !.key = _calculate_key(keycalc.seed, keycalc.security_algorithm)]
    /\ UNCHANGED <<apiVars, wdVars, tpVars, peer, poll>>

\* Lines 886-887 and 914-915: the send-key request, or OverflowError.
KeySend ==
    /\ keycalc.pc = "send"
    /\ IF FitsBytes(keycalc.key, keycalc.seed_key_length)
       THEN keycalc' = [keycalc EXCEPT
                          !.pc = "sent",
                          !.request = KeyRequest(keycalc.reply_seed,
                                                 keycalc.security_algorithm,
                                                 keycalc.seed_key_length)]
       ELSE keycalc' = [keycalc EXCEPT !.pc = "raised"]
    /\ UNCHANGED <<apiVars, wdVars, tpVars, peer, poll>>

KeyNext ==
    \/ KeyExtractSeed
    \/ KeyCalculate
    \/ KeySend

SpecKey == KeyInit /\ [][KeyNext]_vars

----------------------------------------------------------------------------
(* Stopping a flash under way. flash_ecu, backup_ecu and _verify_flash     *)
(* take no cancellation signal; what the callers have is the window's      *)
(* closeEvent (on_stop in the Kivy application), which calls disconnect()  *)
(* on the user-interface thread while the worker thread is in the block    *)
(* loop.                                                                   *)

\* The worker thread at the first block of the Calibration sector of an
\* MSD80, connected, in the programming session and unlocked.
CancelInit ==
    /\ \E c \in ConnectInputs :
          /\ connect(ApiInit_self, c).result = "ok"
          /\ self = [connect(ApiInit_self, c).s EXCEPT
                        !.vin = "WBA", !.ecu_id = "MSD80", !.ecu_type = "MSD80",
                        !.ecu_memory_map = "MSD80",
                        !.session_type = SESSION_PROGRAMMING,
                        !.security_level = SECURITY_LEVEL_PROGRAMMING]
    /\ pc = "flash_write"
    /\ loop = [NoLoop EXCEPT !.flash_len = \h100000, !.sector = 2]
    /\ sent = <<>>
    /\ event = Running
    /\ hist = [session_ack |-> TRUE, key_ack |-> TRUE, stale |-> FALSE]
    /\ WdOff
    /\ TpOff
    /\ AuxOff

\* An ECU that answers the block's requests positively.
BlockAccepted == [r |-> "pos", max_block_size |-> 0, td_fail |-> 0, r_exit |-> "pos"]

\* Lines 1125-1131: the worker thread dispatches the requests of the next
\* block; without a port nothing is dispatched and flash_ecu raises.
WorkerSend ==
    /\ pc = "flash_write"
    /\ fg.pc = "idle"
    /\ LET m       == MapOf(self.ecu_memory_map)
           sector  == m.sectors[loop.sector]
           address == sector.start + loop.offset
           n       == Min(m.transfer_size, sector.size - loop.offset)
           d       == _write_memory(self, address, n, BlockAccepted)
       IN  IF d.sent = <<>>
           THEN /\ pc' = "flash_raise"
                /\ loop' = [loop EXCEPT !.error = "WriteFailed"]
                /\ sent' = <<>>
                /\ fg' = fg
           ELSE /\ sent' = d.sent
                /\ fg' = [fg EXCEPT !.pc = "wait"]
                /\ UNCHANGED <<pc, loop>>
    /\ UNCHANGED <<self, event, hist, now, last_activity, timer_due, wd, tick,
                   tpVars, auxVars>>

\* Lines 1130-1143: the block's last reply is read. On a port closed under
\* it the read raises, the dispatcher returns None (lines 581-583) and
\* flash_ecu raises.
WorkerReply ==
    /\ pc = "flash_write"
    /\ fg.pc = "wait"
    /\ fg' = [fg EXCEPT !.pc = "idle"]
    /\ LET m      == MapOf(self.ecu_memory_map)
           sector == m.sectors[loop.sector]
           n      == Min(m.transfer_size, sector.size - loop.offset)
           l      == [loop EXCEPT !.bytes_written = @ + n]
       IN  IF self.port = "none"
           THEN /\ pc' = "flash_raise"
                /\ loop' = [loop EXCEPT !.error = "WriteFailed"]
           ELSE IF loop.offset + m.transfer_size < sector.size
           THEN /\ pc' = pc
                /\ loop' = [l EXCEPT !.offset = @ + m.transfer_size]
           ELSE /\ pc' = "flash_sector"
                /\ loop' = [l EXCEPT !.sector = @ + 1, !.offset = 0]
    /\ UNCHANGED <<self, sent, event, hist, now, last_activity, timer_due, wd, tick,
                   tpVars, auxVars>>

\* closeEvent: disconnect() runs on the user-interface thread, at whatever
\* point the worker thread is; tick.busy keeps whether an exchange of the
\* worker was in flight.
CloseEvent ==
    /\ self.port # "none"
    /\ \E r \in Replies :
          LET o == disconnect(self, r)
          IN  /\ self' = o.s
              /\ sent' = o.sent
              /\ hist' = HistAfter("disconnect", o.sent)
    /\ event' = EventOf("closeEvent", "ok", "none")
    /\ tick' = [tick EXCEPT !.busy = (fg.pc = "wait")]
    /\ UNCHANGED <<pc, loop, now, last_activity, timer_due, wd, fg, tpVars, auxVars>>

CancelNext ==
    \/ WorkerSend
    \/ WorkerReply
    \/ CloseEvent
    \/ FlashRaise

SpecCancel == CancelInit /\ [][CancelNext]_vars

----------------------------------------------------------------------------
(* Tester-present as the watchdog and the block loops send it, among the   *)
(* operations that change the session and the security state.              *)

\* A keep-alive that takes a refusal for the end of the session.
tester_present_tracking(s, r) ==
    LET sid == IF s.protocol = "UDS" THEN UDS_TESTER_PRESENT ELSE KWP_TESTER_PRESENT
        d   == Dispatch(s, sid, <<0>>, 0, 0, r)
    IN  IF d.response = "neg"
        THEN Out([s EXCEPT !.session_type = SESSION_DEFAULT, !.security_level = 0],
                 "ok", d.sent)
        ELSE Out(s, "ok", d.sent)

\* "self._send_uds_command(UDS_TESTER_PRESENT, [0x00])" or its KWP2000
\* counterpart, the reply r dropped: lines 622-625, 1011-1014, 1140-1143,
\* 1318-1321.
tester_present(s, r) ==
    LET sid == IF s.protocol = "UDS" THEN UDS_TESTER_PRESENT ELSE KWP_TESTER_PRESENT
        d   == Dispatch(s, sid, <<0>>, 0, 0, r)
    IN  Out(s, "ok", d.sent)

\* The watchdog timer fires on an idle connection and sends its
\* tester-present.
WatchdogTesterPresent ==
    /\ self.watchdog_timer = "armed"
    /\ \E r \in Replies : Returns("watchdog_tester_present", tester_present(self, r))

\* The tester-present of the block loops of flash_ecu, backup_ecu and
\* _verify_flash, which run unlocked in the programming session.
LoopTesterPresent ==
    /\ self.connected
    /\ self.session_type = SESSION_PROGRAMMING
    /\ self.security_level = SECURITY_LEVEL_PROGRAMMING
    /\ \E r \in Replies : Returns("loop_tester_present", tester_present(self, r))

AliveNext ==
    \/ Connect
    \/ Disconnect
    \/ ReadEcuInfo
    \/ EnterProgrammingSession
    \/ SecurityAccess
    \/ ResetEcu
    \/ WatchdogTesterPresent
    \/ LoopTesterPresent

SpecAlive == Init /\ [][AliveNext]_vars

----------------------------------------------------------------------------
(* Properties of the operations, checked under Spec.                       *)

\* The erase, write, download and transfer services.
ProgrammingServices ==
    {UDS_ROUTINE_CONTROL, KWP_WRITE_MEMORY_BY_ADDRESS, UDS_REQUEST_DOWNLOAD,
     UDS_TRANSFER_DATA}

ProgrammingRequests == {i \in 1..Len(sent) : sent[i].sid \in ProgrammingServices}

\* The bytes q.addr .. q.addr + q.size - 1 meet the sector.
Intersects(q, sector) ==
    /\ q.addr < sector.start + sector.size
    /\ sector.start < q.addr + q.size

ActiveSectors == MapOf(self.ecu_memory_map).sectors

\* C1: no erase request (0x31) and no write, download or transfer request
\* (0x3D, 0x34, 0x36) that flash_ecu dispatches has an address range that
\* meets a sector marked protected in the active memory map.
C1_ProtectedSectorsUntouched ==
    \A i \in ProgrammingRequests :
        \A k \in 1..Len(ActiveSectors) :
            ActiveSectors[k].protected => ~Intersects(sent[i], ActiveSectors[k])

\* flash_ecu has passed the protected bootloader sector and erased or written
\* in the calibration sector after it.
C1_Witness ==
    /\ ProgrammingRequests # {}
    /\ pc \in {"flash_write", "flash_sector"}
    /\ loop.sector >= 2
    /\ ActiveSectors[1].protected

\* C2: every erase, write, download and transfer request of flash_ecu is
\* dispatched with session_type Programming and security_level Programming,
\* after a positive reply to the session request and a positive reply to the
\* key on this connection.
C2_ProgrammingOnlyUnlocked ==
    \A i \in ProgrammingRequests :
        /\ sent[i].session_type = SESSION_PROGRAMMING
        /\ sent[i].security_level = SECURITY_LEVEL_PROGRAMMING
        /\ hist.session_ack
        /\ hist.key_ack

\* flash_ecu has dispatched a positively answered erase.
C2_Witness ==
    /\ pc = "flash_write"
    /\ \E i \in ProgrammingRequests :
          sent[i].sid = UDS_ROUTINE_CONTROL /\ sent[i].response = "pos"

\* C3: when disconnect has returned, whatever the state it was called in,
\* session_type is Default, security_level is 0 (locked), connected is false
\* and the port is released.
C3_DisconnectResets ==
    event.op = "disconnect" =>
        /\ self.session_type = SESSION_DEFAULT
        /\ self.security_level = 0
        /\ ~self.connected
        /\ self.port = "none"

\* disconnect has returned from the programming session, unlocked.
C3_Witness ==
    /\ event.op = "disconnect"
    /\ event.pre_session = SESSION_PROGRAMMING
    /\ event.pre_security = SECURITY_LEVEL_PROGRAMMING
    /\ Len(sent) = 1

\* C4: when flash_ecu has ended with an error, session_type is not
\* Programming and security_level is 0 (locked).
C4_FlashErrorLeavesLocked ==
    (event.op = "flash_ecu" /\ event.result = "raise") =>
        /\ self.session_type # SESSION_PROGRAMMING
        /\ self.security_level = 0

\* C5: when enter_programming_session has returned with a positive reply to
\* its session request, session_type is Programming and security_level is 0
\* (locked), whatever it was before the call.
C5_SessionChangeLocks ==
    (event.op = "enter_programming_session" /\ event.result = "ok") =>
        /\ self.session_type = SESSION_PROGRAMMING
        /\ self.security_level = 0

\* C6: when reset_ecu has sent the hard reset, security_level is 0 (locked),
\* session_type is not Programming and the object is not connected.
C6_ResetTearsDown ==
    (event.op = "reset_ecu" /\ Len(sent) > 0) =>
        /\ self.security_level = 0
        /\ self.session_type # SESSION_PROGRAMMING
        /\ ~self.connected

----------------------------------------------------------------------------
(* Properties of the watchdog, checked under SpecWd.                       *)

\* C7: no two exchanges are in flight on the connection at a time: a
\* watchdog tick that fires while a foreground request waits for its reply
\* dispatches nothing.
C7_OneExchangeInFlight == tick.busy => tick.sent_at < tick.at


\* The time of the last dispatch by either thread.
LastDispatch == IF tick.sent_at > fg.last THEN tick.sent_at ELSE fg.last

\* C8: a watchdog tick sends a tester-present if and only if, at the tick,
\* the time since last_activity is at least 2 s, and it sends at most one;
\* every dispatched request, tester-present included, sets last_activity to
\* the time of its dispatch.
C8_TesterPresentIffIdle ==
    /\ tick.tester_present = 1 <=> tick.age >= 2
    /\ tick.tester_present <= 1
    /\ last_activity = LastDispatch

\* A tick has met two or more seconds without activity and has its
\* tester-present in flight.
C8_Witness ==
    /\ wd.pc = "tester_present_wait"
    /\ tick.age >= 2
    /\ tick.tester_present = 1
    /\ sent[1].sid = UDS_TESTER_PRESENT
    /\ last_activity = now

\* The time within which a read every 5 s must have come: 5 s, a watchdog
\* interval and the longest exchange.
BatteryWindow == BATTERY_CHECK_IDLE + WATCHDOG_INTERVAL + ISOTP_TIMEOUT

\* C9: while the connection is open and the foreground thread idle, the
\* watchdog issues a battery-voltage read at least every 5 s: once the
\* foreground has been idle for the whole window, a battery read has been
\* dispatched since it went idle.
C9_BatteryReadWhileIdle ==
    (self.connected /\ fg.pc = "idle" /\ now - fg.last >= BatteryWindow)
        => tick.battery >= fg.last

----------------------------------------------------------------------------
(* Properties of the ISO-TP engine, checked under SpecIsotp.               *)

\* C10: the frames send emits for a message of 1..4095 bytes, read in order
\* by _receive_isotp, reassemble to the message, byte for byte and without
\* the padding: neither side fails, and once the sender has sent all and the
\* line is read empty, the receiver has returned the message.
C10_RoundTrip ==
    /\ tx.pc # "failed"
    /\ rx.pc # "failed"
    /\ rx.pc = "done" => rx.result = tx.data
    /\ (tx.pc = "response" /\ wire = <<>>) => rx.pc = "done"

\* A message of 4095 bytes has been sent in a first frame and consecutive
\* frames, and has been returned by the receiver.
C10_Witness ==
    /\ Len(tx.data) = 4095
    /\ tx.pc = "response"
    /\ rx.pc = "done"
    /\ Len(rx.result) = 4095
    /\ wire = <<>>

----------------------------------------------------------------------------
(* Properties of _receive_isotp against the ECU, checked under SpecRx.     *)

\* The consecutive frames _receive_isotp has read: those written less those
\* still on the line.
ConsecutiveRead == Len(peer.nibbles) - (Len(wire) \div 13)

\* C11: in a multi-frame reception _receive_isotp fails at the first
\* consecutive frame whose sequence nibble is not the expected one
\* (1, 2, ..., 15, 0, 1, ...), wherever in the stream and whatever the
\* nibble, and reads nothing after it; it fails at no frame numbered right.
C11_SequenceErrorStopsReading ==
    /\ rx.pc = "failed" =>
          /\ ConsecutiveRead \in 1..Len(peer.nibbles)
          /\ Deviations(peer.nibbles) # {}
          /\ \A i \in Deviations(peer.nibbles) : ConsecutiveRead <= i
          /\ ConsecutiveRead \in Deviations(peer.nibbles)
    /\ rx.pc \in {"consecutive", "done"} =>
          \A i \in Deviations(peer.nibbles) : ConsecutiveRead < i

\* _receive_isotp has failed at a frame after the wrap of the nibble, and a
\* frame written after it lies unread on the line.
C11_Witness ==
    /\ rx.pc = "failed"
    /\ ConsecutiveRead >= 17
    /\ Len(wire) >= 13
    /\ Len(peer.nibbles) > ConsecutiveRead

\* C33: a send returns one reassembled response or an error value that tells
\* the caller which failure occurred; when the reception stops at a
\* consecutive frame with the wrong number, the value returned is the
\* SequenceError.
C33_TypedError ==
    LET ret == _receive_isotp_returned
    IN  /\ rx.pc = "done" => ret.value = "bytes" /\ Len(ret.data) = rx.length
        /\ (rx.pc = "failed" /\ Deviations(peer.nibbles) # {})
              => ret.error = "SequenceError"

----------------------------------------------------------------------------
(* Properties of send against the ECU, checked under SpecTx.               *)

\* The consecutive frames sent since the last flow control was written.
FramesSinceFlowControl == (tx.data_index - peer.fc_index) \div 7

\* C12: with a block size B # 0 in the flow control, the sender waits for
\* the next flow control after exactly B consecutive frames since the last
\* one: it does not wait after fewer, and does not send more than B without
\* waiting.
C12_FlowControlEveryBlock ==
    tx.block_size # 0 =>
        /\ (tx.pc = "flow_control" /\ back = <<>>)
              => FramesSinceFlowControl = tx.block_size
        /\ tx.pc = "consecutive" => FramesSinceFlowControl < tx.block_size

IsRequestSeed(q) == q.sid = UDS_SECURITY_ACCESS /\ q.data = <<1>>

\* The requests of the step just taken hold, one after the other, a
\* request-seed and a send-key, both dispatched in the programming session
\* and both answered positively.
SeedThenKeyGranted(snt) ==
    \E i \in 1..(Len(snt) - 1) :
        /\ IsRequestSeed(snt[i])
        /\ snt[i].response = "pos"
        /\ snt[i].session_type = SESSION_PROGRAMMING
        /\ IsSendKey(snt[i + 1])
        /\ snt[i + 1].response = "pos"
        /\ snt[i + 1].session_type = SESSION_PROGRAMMING

\* A request-seed or a send-key that got no reply or a negative one.
SecurityStepRefused(snt) ==
    \E i \in 1..Len(snt) :
        /\ IsRequestSeed(snt[i]) \/ IsSendKey(snt[i])
        /\ snt[i].response # "pos"

\* C15: security_level goes from Locked to Unlocked only in a step whose
\* send-key got a positive reply, right after a request-seed that got a
\* positive reply, both dispatched in the Programming session; and a step in
\* which the request-seed or the send-key gets no reply or a non-positive one
\* leaves security_level Locked, security_access reporting the failure.
C15_UnlockOnlyByKeyAck ==
    [][/\ (self.security_level = 0 /\ self'.security_level # 0)
            => SeedThenKeyGranted(sent')
       /\ ((event'.op = "security_access" \/ pc' = "flash_raise" \/ pc' = "flash_file")
             /\ SecurityStepRefused(sent'))
            => /\ self'.security_level = 0
               /\ event'.op = "security_access" => event'.result = "fail"
               /\ event'.op # "security_access"
                     => (pc' = "flash_raise" /\ loop'.error = "SecurityDenied")]_vars

\* security_access has unlocked a locked object.
C15_Witness ==
    /\ event.op = "security_access"
    /\ event.pre_security = 0
    /\ event.result = "ok"
    /\ self.security_level = SECURITY_LEVEL_PROGRAMMING
    /\ SeedThenKeyGranted(sent)

IsErase(q) == q.sid = UDS_ROUTINE_CONTROL

\* The write requests of either dialect: write-by-address, request-download,
\* transfer-data and transfer-exit.
IsWrite(q) ==
    q.sid \in {KWP_WRITE_MEMORY_BY_ADDRESS, UDS_REQUEST_DOWNLOAD, UDS_TRANSFER_DATA,
               UDS_REQUEST_TRANSFER_EXIT}

\* The sector the flash loop is at after the step.
SectorAfter == MapOf(self'.ecu_memory_map).sectors[loop'.sector]

\* C18: with erase_required, flash_ecu dispatches for each sector it programs
\* one erase request, carrying the sector's start and size, and goes on to
\* the sector's first write only when that erase was answered positively;
\* writes are dispatched only by the block loop that such an erase opened,
\* for that one sector, and no erase is dispatched inside it. When the erase
\* gets no reply or a non-positive one, flash_ecu raises and writes nothing.
C18_EraseBeforeWrite ==
    [][/\ (pc' = "flash_write" /\ pc # "flash_write") =>
            /\ pc = "flash_sector"
            /\ loop'.offset = 0
            /\ MapOf(self'.ecu_memory_map).erase_required =>
                  /\ Len(sent') = 1
                  /\ IsErase(sent'[1])
                  /\ sent'[1].addr = SectorAfter.start
                  /\ sent'[1].size = SectorAfter.size
                  /\ sent'[1].response = "pos"
       /\ (pc' = "flash_write" /\ pc = "flash_write") => loop'.sector = loop.sector
       /\ \A i \in 1..Len(sent') :
            /\ IsWrite(sent'[i]) =>
                  /\ pc = "flash_write"
                  /\ \A j \in 1..Len(sent') : ~IsErase(sent'[j])
            /\ IsErase(sent'[i]) =>
                  /\ pc = "flash_sector"
                  /\ Len(sent') = 1
                  /\ sent'[i].response # "pos" => pc' = "flash_raise"]_vars

\* flash_ecu stands before the first write of a sector whose erase was
\* answered positively.
C18_Witness ==
    /\ pc = "flash_write"
    /\ loop.offset = 0
    /\ Len(sent) = 1
    /\ IsErase(sent[1])
    /\ sent[1].response = "pos"
    /\ sent[1].addr = ActiveSectors[loop.sector].start
    /\ sent[1].size = ActiveSectors[loop.sector].size

\* The requests for one service among those of the step just taken.
RequestsFor(sid) == {i \in 1..Len(sent) : sent[i].sid = sid}

\* C19: on the UDS path a programmed sector gets one Request-Download, for
\* the sector's start and size, then its Transfer-Data blocks numbered from
\* 1, then one Transfer-Exit: every Request-Download of flash_ecu opens a
\* whole sector.
C19_OneDownloadPerSector ==
    \A i \in RequestsFor(UDS_REQUEST_DOWNLOAD) :
        \E k \in 1..Len(ActiveSectors) :
            /\ sent[i].addr = ActiveSectors[k].start
            /\ sent[i].size = ActiveSectors[k].size

\* The bytes of the non-protected sectors among the first n of the map.
RECURSIVE UnprotectedBytes(_, _)
UnprotectedBytes(sectors, n) ==
    IF n = 0 THEN 0
    ELSE UnprotectedBytes(sectors, n - 1)
            + (IF sectors[n].protected THEN 0 ELSE sectors[n].size)

\* C20: for an image of 1 to flash_size bytes flash_ecu programs every
\* non-protected sector in full, the image's bytes padded with 0xFF to the
\* sector's size, also a sector that lies partly or wholly beyond the
\* image's end: when the sector loop is through, the bytes written are those
\* of all the non-protected sectors.
C20_EverySectorInFull ==
    (pc = "flash_verify" /\ loop.flash_len >= 1)
        => loop.bytes_written = UnprotectedBytes(ActiveSectors, Len(ActiveSectors))

IsRead(q) == q.sid \in {UDS_READ_MEMORY_BY_ADDRESS, KWP_READ_MEMORY_BY_ADDRESS}

\* The bytes of the sectors flash_ecu programs for an image of len bytes,
\* among the first n sectors of the map.
RECURSIVE ProgrammedBytes(_, _, _)
ProgrammedBytes(m, n, len) ==
    IF n = 0 THEN 0
    ELSE ProgrammedBytes(m, n - 1, len)
            + (IF Protected(m.sectors[n]) \/ ~InImage(m, m.sectors[n], len)
               THEN 0 ELSE m.sectors[n].size)

SomeRequestRefused == \E i \in 1..Len(sent) : sent[i].response # "pos"

\* C22: with an ECU that answers every request positively and reads back
\* what was written, flash_ecu on an image of at most flash_size bytes runs
\* to the end and reports success: it raises only where the port did not
\* open, a request was not answered positively, the image is larger than
\* flash_size or a block read back differs.
C22_RaisesOnlyOnRefusal ==
    pc = "flash_raise" =>
        \/ loop.error \in {"ConnectionError", "ImageTooLarge", "VerifyFailed"}
        \/ SomeRequestRefused

\* The hard-reset request, service 0x11 with sub-function 0x01.
IsHardReset(q) == q.sid = UDS_ECU_RESET /\ q.data = <<1>>

\* C23: a flash that has passed verification sends a hard-reset request
\* before it is reported done: the step in which flash_ecu returns success
\* dispatches the reset.
C23_ResetBeforeDone ==
    (event.op = "flash_ecu" /\ event.result = "ok")
        => \E i \in 1..Len(sent) : IsHardReset(sent[i])

\* C24: backup_ecu, then flash_ecu with the backup file, then backup_ecu
\* complete, whatever the ECU's memory holds, and the second backup equals
\* the first on the non-protected sectors: a backup_ecu that has the ECU
\* unlocked ends with its file unless the ECU refused a read.
C24_BackupCompletes ==
    (event.op = "backup_ecu" /\ event.result = "raise"
        /\ self.security_level = SECURITY_LEVEL_PROGRAMMING)
        => event.error \in {"ConnectionError", "SessionRejected", "SecurityDenied",
                            "ReadFailed"}

\* C25: backup_ecu walks every sector of the map, protected or not, in the
\* map's order, with read requests from each sector's start to its end, and
\* dispatches no erase, write, download or transfer request; the file is the
\* replies in that order, so the walk stops before the last sector's end only
\* at a read the ECU did not answer positively.
C25_BackupWalksEverySector ==
    event.op = "backup_ecu" =>
        /\ \A i \in 1..Len(sent) : ~IsErase(sent[i]) /\ ~IsWrite(sent[i])
        /\ (pc = "backup_raise" /\ loop.sector >= 1) =>
              \E i \in 1..Len(sent) : IsRead(sent[i]) /\ sent[i].response # "pos"

\* C27: flash_ecu and backup_ecu work with the identity and the memory map
\* read on the current connection: neither reaches its sector loop with an
\* ecu_id, variant and memory map that were stored before the last
\* disconnect and not read again since.
C27_IdentityOfThisConnection ==
    pc \in {"flash_sector", "flash_write", "flash_verify", "backup_read"}
        => ~hist.stale

SectorEnd(sec) == sec.start + sec.size

\* The sectors of m are sorted by start address, do not overlap, follow one
\* another without a gap, and lie inside [flash_start, flash_start + flash_size).
SectorsWellFormed(m) ==
    LET s == m.sectors
    IN  /\ Len(s) >= 1
        /\ \A i \in 1..Len(s) : s[i].size > 0
        /\ \A i \in 1..(Len(s) - 1) :
              /\ s[i].start < s[i + 1].start
              /\ SectorEnd(s[i]) <= s[i + 1].start
              /\ SectorEnd(s[i]) = s[i + 1].start
        /\ m.flash_start <= s[1].start
        /\ SectorEnd(s[Len(s)]) <= m.flash_start + m.flash_size

\* C28: every registered memory map and the default map have sectors sorted
\* by start address, non-overlapping and contiguously covering a range
\* inside [flash_start, flash_start + flash_size), and in every state the map
\* the object works with is None or one of these, as registered.
C28_MapsWellFormed ==
    /\ \A t \in ECU_TYPES : SectorsWellFormed(ECU_MEMORY_MAPS[t])
    /\ SectorsWellFormed(DEFAULT_MEMORY_MAP)
    /\ self.ecu_memory_map \in ECU_TYPES \cup {"DEFAULT", "none"}
    /\ self.ecu_memory_map # "none"
          => SectorsWellFormed(MapOf(self.ecu_memory_map))

C28_Witness ==
    /\ pc = "flash_write"
    /\ self.ecu_memory_map = "MG1"
    /\ loop.bytes_written > 0

\* C34: once an erase or write step of flash_ecu fails (no reply or one that
\* is not positive), flash_ecu dispatches no further erase, write-memory,
\* request-download or transfer-data request, for that sector or a later
\* one, and the error it raises names the failing sector or address.
C34_FailureStopsFlash ==
    [][ /\ (pc \in {"flash_sector", "flash_write"} /\ pc' = "flash_raise") =>
              LET m      == MapOf(self.ecu_memory_map)
                  sector == m.sectors[loop.sector]
                  n      == Len(sent')
                  named  == FailureNamed(m, loop')
              IN  /\ n >= 1
                  /\ sent'[n].response # "pos"
                  /\ \A i \in 1..(n - 1) : sent'[i].response = "pos"
                  /\ self' = self
                  /\ pc = "flash_sector" =>
                        /\ n = 1
                        /\ IsErase(sent'[1])
                        /\ loop'.error = "EraseFailed"
                        /\ named.sector = sector.name
                        /\ sent'[1].addr = sector.start
                  /\ pc = "flash_write" =>
                        /\ \A i \in 1..n : IsWrite(sent'[i])
                        /\ loop'.error = "WriteFailed"
                        /\ named.address = sector.start + loop.offset
                        /\ sent'[1].addr = named.address
                        /\ sent'[n].addr >= named.address
                        /\ sent'[n].addr < named.address + m.transfer_size
        /\ pc = "flash_raise" =>
              /\ sent' = <<>>
              /\ pc' \in {"idle", "flash_raise"}
              /\ pc' = "idle" =>
                    /\ event'.op = "flash_ecu"
                    /\ event'.result = "raise"
                    /\ event'.error = loop.error
      ]_vars

\* The second transfer-data of a block of the Calibration sector got no
\* reply: flash_ecu is about to raise, the request it failed on is the last
\* it dispatched.
C34_Witness ==
    /\ pc = "flash_raise"
    /\ loop.error = "WriteFailed"
    /\ Len(sent) = 3
    /\ sent[3].sid = UDS_TRANSFER_DATA
    /\ sent[3].response = "none"
    /\ sent[2].response = "pos"

\* The step just taken has dispatched a read-memory request for n bytes at
\* address.
ReadDispatched(address, n) ==
    \E i \in 1..Len(sent') :
        /\ IsRead(sent'[i])
        /\ sent'[i].addr = address
        /\ sent'[i].size = n

\* C35: for every block length n that backup_ecu and _verify_flash ask for
\* (min(transfer_size, 4096), or what is left of the sector), _read_memory
\* builds in both dialects a read request whose length field holds n: the
\* request is dispatched, it does not fail while being put together.
C35_ReadLengthEncoded ==
    [][ LET m      == MapOf(self.ecu_memory_map)
            sector == m.sectors[loop.sector]
            n      == Min(Min(m.transfer_size, 4096), sector.size - loop.offset)
        IN  /\ (pc = "backup_read" /\ pc' # pc /\ loop.sector <= Len(m.sectors))
                  => ReadDispatched(sector.start + loop.offset, n)
            /\ (pc = "backup_read" /\ pc' = pc)
                  => ReadDispatched(sector.start + loop.offset, n)
            /\ (pc = "flash_verify" /\ pc' = "flash_raise")
                  => ReadDispatched(sector.start + loop.offset, n)
      ]_vars

----------------------------------------------------------------------------
(* Properties of the dispatchers, checked under SpecPoll.                  *)

\* The replies the UDS dispatcher has re-read.
Reads == poll.uds.reads

\* A reply is a whole message: a negative one has its three bytes.
WholeReply(r) == r = <<>> \/ r[1] # NEGATIVE_RESPONSE \/ Len(r) >= 3

\* A response-pending reply, as the re-reads take it.
PendingAgain(r) ==
    Len(r) >= 3 /\ r[1] = NEGATIVE_RESPONSE /\ r[3] = NRC_RESPONSE_PENDING

\* The ECU's replies are k response-pending ones and then a positive one.
PendingThenPositive(k) ==
    /\ Len(poll.script) = k + 1
    /\ poll.script[k + 1] # <<>>
    /\ poll.script[k + 1][1] = poll.sid + POSITIVE_RESPONSE

C14_DispatchersAgree ==
    (poll.pc = "on" /\ poll.uds.pc = "returned" /\ poll.kwp.pc = "returned")
        => poll.uds.response = poll.kwp.response

----------------------------------------------------------------------------
(* Properties of the key computation, checked under SpecKey.               *)

\* Byte i (1 the most significant) of the seed as a 32-bit number.
SeedByte(i) ==
    LET n == Len(keycalc.seed_bytes)
    IN  IF i > 4 - n THEN keycalc.seed_bytes[i - (4 - n)] ELSE 0

\* The exclusive or of two bytes, bit by bit.
XorByte(a, b) ==
    LET bit(x, i) == (x \div (2 ^ i)) % 2
        d(i)      == IF bit(a, i) # bit(b, i) THEN 2 ^ i ELSE 0
    IN  d(0) + d(1) + d(2) + d(3) + d(4) + d(5) + d(6) + d(7)

\* ((seed XOR 0x5A3C) + 0x7F1B) mod 2^32, byte by byte with the carries.
XorKeyBytes ==
    LET x3 == XorByte(SeedByte(3), \h5A)
        x4 == XorByte(SeedByte(4), \h3C)
        b4 == x4 + \h1B
        b3 == x3 + \h7F + (b4 \div 256)
        b2 == SeedByte(2) + (b3 \div 256)
        b1 == SeedByte(1) + (b2 \div 256)
    IN  <<b1 % 256, b2 % 256, b3 % 256, b4 % 256>>

\* C16: for every seed the key of the "xor" algorithm is
\* ((seed XOR 0x5A3C) + 0x7F1B) mod 2^32, and the key of the "crc" algorithm
\* for seed 0 is 0.
C16_KeyFormula ==
    keycalc.pc \in {"send", "sent", "raised"} =>
        /\ keycalc.security_algorithm = "xor" =>
              /\ keycalc.key[1] = XorKeyBytes[1] * 256 + XorKeyBytes[2]
              /\ keycalc.key[2] = XorKeyBytes[3] * 256 + XorKeyBytes[4]
        /\ (keycalc.security_algorithm = "crc" /\ keycalc.seed = <<0, 0>>)
              => keycalc.key = <<0, 0>>

\* The xor key of seed 0xFFFFDAD9 has been computed: the addition carries out
\* of all 32 bits.
C16_Witness ==
    /\ keycalc.pc = "sent"
    /\ keycalc.security_algorithm = "xor"
    /\ keycalc.seed = <<\hFFFF, \hDAD9>>
    /\ keycalc.key = <<0, 0>>

\* The XOR flow has sent its key for the seed 0x1234.
XorFlowOf1234 ==
    /\ keycalc.pc = "sent"
    /\ keycalc.security_algorithm = "xor"
    /\ keycalc.seed_key_length = 2
    /\ keycalc.seed = <<0, \h1234>>

\* C17 as stated: in the XOR flow with seed 0x1234 the key sent is 0xC7B3.
C17_KeyOf1234 == XorFlowOf1234 => keycalc.request = <<2, \hC7, \hB3>>

\* C17: in the XOR flow with seed 0x1234 the send-key request carries the
\* two-byte key 0xC723, (0x1234 XOR 0x5A3C) + 0x7F1B = 0x4808 + 0x7F1B.
C17_KeyOf1234Is_C723 == XorFlowOf1234 => keycalc.request = <<2, \hC7, \h23>>

\* The XOR flow has sent a three-byte send-key request for the seed 0x1234.
C17_Witness == XorFlowOf1234 /\ Len(keycalc.request) = 3

\* The flows of the registered maps: two-byte seeds with the XOR algorithm,
\* four-byte seeds with the CRC algorithm.
RegisteredFlow ==
    \/ /\ keycalc.security_algorithm = "xor"
       /\ keycalc.seed_key_length = 2
       /\ Len(keycalc.reply_seed) = 2
    \/ /\ keycalc.security_algorithm = "crc"
       /\ keycalc.seed_key_length = 4
       /\ Len(keycalc.reply_seed) = 4

\* C36: for every seed of seed_key_length bytes the ECU can return,
\* security_access computes a key that fits seed_key_length bytes, sends a
\* send-key request with exactly that many key bytes, and does not raise.
C36_KeyFitsItsLength ==
    RegisteredFlow =>
        /\ keycalc.pc \in {"send", "sent", "raised"}
              => FitsBytes(keycalc.key, keycalc.seed_key_length)
        /\ keycalc.pc # "raised"
        /\ keycalc.pc = "sent" => Len(keycalc.request) = 1 + keycalc.seed_key_length

----------------------------------------------------------------------------
(* Properties of stopping a flash, checked under SpecCancel.               *)

\* C26: a cancellation raised during backup, flash or verify is taken up at
\* a block boundary, never while a frame exchange is in flight; the
\* operation then dispatches no further block and the session is aborted:
\* back to the default session, then disconnect.
C26_CancelAtBlockBoundary ==
    event.op = "closeEvent" =>
        /\ ~tick.busy
        /\ self.session_type = SESSION_DEFAULT
        /\ ~self.connected
        /\ \A i \in 1..Len(sent) : ~IsWrite(sent[i])

----------------------------------------------------------------------------
(* Properties of the consecutive frames, checked under SpecTx.             *)

\* The consecutive frames sent so far.
ConsecutiveSent == (tx.data_index - 6) \div 7

\* C29: with the STmin byte v of the flow control, the pause before each
\* consecutive frame is v milliseconds for v in 0x00..0x7F, (v - 0xF0) times
\* 100 microseconds for v in 0xF1..0xF9 and none for every other value:
\* 0x7F gives 127 ms, 0xF1 gives 100 us, 0x80 gives no pause.
C29_SeparationTime ==
    LET v == peer.st_min
    IN  (tx.pc # "send" /\ ConsecutiveSent >= 1) =>
            /\ tx.st_min = v
            /\ v \in 0..127 => tx.pause = v * 1000
            /\ v \in 241..249 => tx.pause = (v - 240) * 100
            /\ v \in (128..240) \cup (250..255) => tx.pause = 0
            /\ v = 127 => tx.pause = 127000
            /\ v = 241 => tx.pause = 100
            /\ v = 128 => tx.pause = 0

C29_Witness ==
    /\ peer.st_min = \hF9
    /\ peer.block_size = 2
    /\ ConsecutiveSent = 3
    /\ tx.pause = 900

\* The frames waiting on the line, oldest first: each is 13 bytes long.
FramesOnWire == Len(wire) \div 13

\* The first data byte of the i-th frame waiting on the line.
PciOnWire(i) == wire[((i - 1) * 13) + 6]

\* C30: the k-th consecutive frame of a message carries the sequence nibble
\* k mod 16: 1 up to 15, then 0, then 1 again, none left out and none twice,
\* whether or not a wait for a flow control lies between two of them.
C30_SequenceNibble ==
    \A i \in 1..FramesOnWire :
        PciOnWire(i) \div 16 = 2 =>
            LET k == ConsecutiveSent - (FramesOnWire - i)
            IN  /\ k >= 1
                /\ PciOnWire(i) % 16 = k % 16

C30_Witness ==
    /\ peer.block_size = 5
    /\ ConsecutiveSent = 17
    /\ FramesOnWire = 2
    /\ PciOnWire(1) = 32
    /\ PciOnWire(2) = 33

----------------------------------------------------------------------------
(* Properties of the frames send emits, checked under SpecIsotp.           *)

\* What the step just taken has put on the line.
NewOnWire == SubSeq(wire', Len(wire) + 1, Len(wire'))

\* f is one frame of the sender as it stands on the line: the request
\* identifier, a length byte of 8, and 8 data bytes that are the bytes of
\* head followed by zeros.
WireFrameOf(f, head) ==
    /\ Len(f) = 13
    /\ Len(head) <= 8
    /\ Unpack32(SubSeq(f, 1, 4)) = CAN_ID_REQUEST
    /\ f[1] = 0
    /\ f[5] = 8
    /\ \A i \in 1..8 : f[5 + i] = IF i <= Len(head) THEN head[i] ELSE 0

\* C31: send emits exactly one Single Frame (PCI byte 0x0N, N the length)
\* and no First Frame for a payload of 1..7 bytes; for a payload of 8 bytes
\* or more it emits a First Frame carrying the 12-bit total length and the
\* first 6 bytes, followed by consecutive frames; every frame put on the
\* line is 8 bytes long, right-padded with 0x00.
C31_FramesOfSend ==
    [][ LET n == Len(tx.data)
        IN  /\ Len(wire') > Len(wire) => Len(NewOnWire) = 13 /\ NewOnWire[5] = 8
            /\ Len(back') > Len(back) =>
                  /\ Len(back') = Len(back) + 13
                  /\ back'[Len(back) + 5] = 8
            /\ (tx.pc = "send" /\ n <= 7) =>
                  (tx' # tx =>
                      /\ WireFrameOf(NewOnWire, <<n>> \o tx.data)
                      /\ tx'.pc = "response")
            /\ (tx.pc = "send" /\ n >= 8) =>
                  (tx' # tx =>
                      /\ WireFrameOf(NewOnWire,
                                     <<16 + (n \div 256), n % 256>>
                                        \o SubSeq(tx.data, 1, 6))
                      /\ tx'.pc = "flow_control")
            /\ (tx.pc = "consecutive" /\ tx' # tx) =>
                  /\ n >= 8
                  /\ NewOnWire[6] \div 16 = 2
                  /\ WireFrameOf(NewOnWire,
                                 <<NewOnWire[6]>>
                                    \o SubSeq(tx.data, tx.data_index + 1,
                                              Min(tx.data_index + 7, n)))
            /\ tx.pc = "response" => wire' = wire \/ Len(wire') < Len(wire)
      ]_vars

\* A message of 8 bytes has gone out as a first frame and one consecutive
\* frame, which stands on the line with its two bytes and five of padding.
C31_Witness ==
    /\ tx.data = Payload(8, 1)
    /\ tx.pc = "response"
    /\ wire = _send_can_frame(CAN_ID_REQUEST, <<33, 7, 8, 0, 0, 0, 0, 0>>)

----------------------------------------------------------------------------
(* Properties of tester-present, checked under SpecAlive.                  *)

\* C32: a tester-present sent by the watchdog or by the foreground, in any
\* session and any security state and whatever the ECU replies, leaves the
\* session state, the security state, the dialect, the identity and the
\* memory map as they were; a second one leaves what the first left.
C32_TesterPresentChangesNothing ==
    [][ event'.op \in {"watchdog_tester_present", "loop_tester_present"} =>
            /\ self'.session_type = self.session_type
            /\ self'.security_level = self.security_level
            /\ self'.protocol = self.protocol
            /\ self'.vin = self.vin
            /\ self'.ecu_id = self.ecu_id
            /\ self'.ecu_type = self.ecu_type
            /\ self'.ecu_memory_map = self.ecu_memory_map
            /\ self'.connected = self.connected
      ]_vars

\* The watchdog's tester-present has been refused in the programming
\* session, unlocked, and the object is still in that session and unlocked.
C32_Witness ==
    /\ event.op = "watchdog_tester_present"
    /\ Len(sent) = 1
    /\ sent[1].response = "neg"
    /\ event.pre_session = SESSION_PROGRAMMING
    /\ event.pre_security = SECURITY_LEVEL_PROGRAMMING
    /\ self.session_type = SESSION_PROGRAMMING
    /\ self.security_level = SECURITY_LEVEL_PROGRAMMING

----------------------------------------------------------------------------
(* Properties of successive dispatcher calls, checked under SpecSeq.       *)

\* C37: over the exchanges of one connection, the reply a dispatcher call
\* returns for its request is a reply the ECU produced for that request, or
\* none: the reply to an earlier request, arriving after that call gave up
\* waiting or polling, is never returned as the reply to a later one.
C37_ReplyBelongsToRequest ==
    poll.pc = "seq" =>
        \A i \in 1..Len(poll.got) : poll.got[i].for \in {0, i}

----------------------------------------------------------------------------
(* Properties of _receive_can_frame on the bus, checked under SpecBus.     *)

\* C38: when _receive_can_frame has read a whole 5-byte header it has, by
\* the time it returns, taken the whole frame from the stream, header and
\* data, also for a frame with an identifier it does not expect: the next
\* read starts where a frame starts.
C38_ReadsWholeFrames ==
    peer.mode = "bus" => peer.read \in peer.bounds

----------------------------------------------------------------------------
(* Properties of disconnect against the watchdog, checked under SpecStop.  *)

\* C39: after disconnect has returned the watchdog is stopped for good,
\* however disconnect fell together with a tick that was already running:
\* no watchdog timer is pending or armed again, so no further tick runs.
C39_WatchdogStopped ==
    event.op = "disconnect" => timer_due = -1

----------------------------------------------------------------------------
(* The progress flash_ecu reports, checked under Spec.                     *)

\* C40: in the write phase of flash_ecu the value handed to the progress
\* callback, bytes_written / total_size * 100 with total_size the length of
\* the image, never exceeds 100: the bytes written so far never exceed the
\* length of the image, also for an image that ends inside a sector.
C40_ProgressWithinScale ==
    pc \in {"flash_sector", "flash_write"}
        => loop.bytes_written * 100 <= loop.flash_len * 100


====
